---- MODULE Spec2Model ----
(***************************************************************************)
(* A state-machine model of the BPL+ tree-walking interpreter              *)
(* (interpreter/interpreter.go): values with shared-reference containers,  *)
(* globals and call frames, the user-function table, the module registry   *)
(* with its loading stack, and the control-flow signals.                   *)
(*                                                                         *)
(* The Go interpreter is recursive (Run -> execStmt -> Run ...).  The      *)
(* model keeps the Go call stack explicitly in `kont`: one record per      *)
(* active Run, loop, user call or import.  `res` is the error value a      *)
(* finished activation hands to the activation below it (NoRes while the   *)
(* top activation is still running).                                       *)
(***************************************************************************)
EXTENDS Integers, Sequences, FiniteSets, TLC

VARIABLES
    globals,      \* Interpreter.globals     : name -> Value
    locals,       \* Interpreter.locals      : stack of frames (name -> Value)
    funcs,        \* Interpreter.funcs       : name -> FunctionDecl
    filename,     \* Interpreter.filename    : diagnostic context
    lines,        \* Interpreter.lines       : source lines of that context
    callStack,    \* Interpreter.callStack   : names of active user calls
    modules,      \* Interpreter.modules     : resolved path -> moduleState
    moduleStack,  \* Interpreter.moduleStack : paths being loaded
    heap,         \* ArrayObject / MapObject storage reachable through Values
    kont,         \* the Go call stack of the evaluator
    res,          \* error value returned by the activation that just ended
    chunks,       \* number of programs handed to Run so far
    importLog,    \* observation: <<path, outcome>> of every execImport step
    front         \* the Lexer and the Parser at work on one source text

vars == <<globals, locals, funcs, filename, callStack, modules, moduleStack,
          heap, kont, res, chunks, importLog, front, lines>>

(***************************************************************************)
(* Bounds of the model.                                                    *)
(***************************************************************************)
MaxChunks == 3      \* programs given to one interpreter (REPL chunks)

(***************************************************************************)
(* Values (type Value).  The zero Value has Kind ValNull.                  *)
(***************************************************************************)
NullValue == [Kind |-> "ValNull", Number |-> 0, Str |-> <<>>, Bool |-> FALSE,
              Arr |-> 0, Map |-> 0]
NumberValue(n) == [NullValue EXCEPT !.Kind = "ValNumber", !.Number = n]
StringValue(s) == [NullValue EXCEPT !.Kind = "ValString", !.Str = s]
BoolValue(b) == [NullValue EXCEPT !.Kind = "ValBool", !.Bool = b]
ArrayRef(o) == [NullValue EXCEPT !.Kind = "ValArray", !.Arr = o]
MapRef(o) == [NullValue EXCEPT !.Kind = "ValMap", !.Map = o]

(***************************************************************************)
(* The heap.  An ArrayObject holds a Go slice: a backing array (buf), a    *)
(* length and a capacity (the length of the backing array; every slice of  *)
(* the interpreter starts at offset 0).  A MapObject holds a Go map.       *)
(* The heap also holds the tables i.files (handle -> *os.File) and         *)
(* i.readers (handle -> *bufio.Reader), the os files `fds` opened so far   *)
(* and the files on disk.                                                  *)
(***************************************************************************)
\* the files on disk when the interpreter starts: path -> lines
Disk ==
    [p \in {<<"f">>, <<"g">>} |->
        IF p = <<"f">> THEN << <<"a">>, <<"b">> >> ELSE << <<"c">> >>]

EmptyHeap ==
    [arrs |-> <<>>, bufs |-> <<>>, maps |-> <<>>,
     files |-> [n \in {} |-> 0],
     readers |-> [n \in {} |-> [fd |-> 0, buf |-> <<>>]],
     fds |-> <<>>, disk |-> Disk, out |-> <<>>]

EmptyEnv == [n \in {} |-> NullValue]

Bind(env, name, val) ==
    [n \in (DOMAIN env) \cup {name} |-> IF n = name THEN val ELSE env[n]]

\* make([]Value, 0, n) filled by n appends: len n, cap n
ArrayValue(h, elems) ==
    LET b == Len(h.bufs) + 1
        o == Len(h.arrs) + 1
    IN [val |-> ArrayRef(o),
        heap |-> [h EXCEPT !.bufs = Append(h.bufs, elems),
                           !.arrs = Append(h.arrs, [buf |-> b, len |-> Len(elems)])]]

MapValue(h, m) ==
    LET o == Len(h.maps) + 1
    IN [val |-> MapRef(o), heap |-> [h EXCEPT !.maps = Append(h.maps, m)]]

\* v.Arr.Elems as a sequence
Elems(h, o) == SubSeq(h.bufs[h.arrs[o].buf], 1, h.arrs[o].len)

\* capacity chosen by append when the backing array is full (runtime growslice,
\* small slices: double, or the needed length when that is larger)
GrowCap(oldcap, need) == IF need > 2 * oldcap THEN need ELSE 2 * oldcap

\* an append whose result is not stored back in the ArrayObject
GoAppendDropped(h, hd, v) == [hd |-> hd, heap |-> h]

\* elems = append(elems, v) for the slice header hd = [buf, len]
GoAppend(h, hd, v) ==
    LET cap == Len(h.bufs[hd.buf])
    IN IF hd.len < cap
       THEN [hd |-> [hd EXCEPT !.len = hd.len + 1],
             heap |-> [h EXCEPT !.bufs[hd.buf][hd.len + 1] = v]]
       ELSE LET nb == Len(h.bufs) + 1
                ncap == GrowCap(cap, hd.len + 1)
                data == [k \in 1..ncap |->
                           IF k <= hd.len THEN h.bufs[hd.buf][k]
                           ELSE IF k = hd.len + 1 THEN v ELSE NullValue]
            IN [hd |-> [buf |-> nb, len |-> hd.len + 1],
                heap |-> [h EXCEPT !.bufs = Append(h.bufs, data)]]

(***************************************************************************)
(* Strings.  A string value is the sequence of its characters, so that     *)
(* concatenation and lexicographic order are computed.  CharOrder lists    *)
(* the characters of the model in ascending byte order.                    *)
(***************************************************************************)
DigitChars == <<"0", "1", "2", "3", "4", "5", "6", "7", "8", "9">>
LowerChars == <<"a", "b", "c", "d", "e", "f", "g", "h", "i", "j", "k", "l", "m",
                "n", "o", "p", "q", "r", "s", "t", "u", "v", "w", "x", "y", "z">>
UpperChars == <<"A", "B", "C", "D", "E", "F", "G", "H", "I", "J", "K", "L", "M",
                "N", "O", "P", "Q", "R", "S", "T", "U", "V", "W", "X", "Y", "Z">>
CharOrder ==
    <<" ", "\"", "+", ",", "-">> \o DigitChars \o <<":">> \o UpperChars
        \o <<"[", "\\", "]">> \o LowerChars \o <<"{", "}">>

CharRank(c) == CHOOSE k \in 1..Len(CharOrder) : CharOrder[k] = c

\* Go's a < b on strings
StrLess(a, b) ==
    \/ /\ Len(a) < Len(b)
       /\ \A k \in 1..Len(a) : a[k] = b[k]
    \/ \E k \in 1..Len(a) :
          /\ k <= Len(b)
          /\ \A j \in 1..(k - 1) : a[j] = b[j]
          /\ CharRank(a[k]) < CharRank(b[k])

\* the keys in descending order
RECURSIVE SortStringsDescending(_)
SortStringsDescending(S) ==
    IF S = {} THEN <<>>
    ELSE LET m == CHOOSE x \in S : \A y \in S \ {x} : StrLess(y, x)
         IN <<m>> \o SortStringsDescending(S \ {m})

\* sort.Strings over the keys of a map (a set): ascending
RECURSIVE SortStrings(_)
SortStrings(S) ==
    IF S = {} THEN <<>>
    ELSE LET m == CHOOSE x \in S : \A y \in S \ {x} : StrLess(x, y)
         IN <<m>> \o SortStrings(S \ {m})

(***************************************************************************)
(* Paths.  A path is the sequence of its components, a component a pair    *)
(* <<stem, extension>>; an absolute path starts with the root component,   *)
(* and the empty sequence is ".".                                          *)
(***************************************************************************)
Root == <<"/", "">>
Dot == <<>>
IsAbs(p) == Len(p) > 0 /\ p[1] = Root

\* filepath.Ext(p) == ""
NoExt(p) == Len(p) = 0 \/ p[Len(p)][2] = ""

\* raw + ".bpl"
WithBpl(p) == [p EXCEPT ![Len(p)] = <<p[Len(p)][1], ".bpl">>]

\* filepath.Clean: drops "." components and resolves ".." against the
\* component before it
RECURSIVE CleanFrom(_, _)
CleanFrom(done, rest) ==
    IF rest = <<>> THEN done
    ELSE LET c == Head(rest)
         IN IF c = <<".", "">> THEN CleanFrom(done, Tail(rest))
            ELSE IF c = <<"..", "">> /\ Len(done) > 0
                    /\ done[Len(done)] \notin {Root, <<"..", "">>}
                 THEN CleanFrom(SubSeq(done, 1, Len(done) - 1), Tail(rest))
            ELSE IF c = <<"..", "">> /\ Len(done) > 0 /\ done[Len(done)] = Root
                 THEN CleanFrom(done, Tail(rest))
            ELSE CleanFrom(Append(done, c), Tail(rest))

Clean(p) == CleanFrom(<<>>, p)

\* filepath.Join(a, b) for a relative b
Join(a, b) == Clean(a \o b)

\* filepath.Dir
Dir(p) == IF Len(p) <= 1 THEN (IF IsAbs(p) THEN p ELSE Dot)
          ELSE SubSeq(p, 1, Len(p) - 1)

(***************************************************************************)
(* Syntax trees (package ast).  Spans are left out.                        *)
(***************************************************************************)
Num(n) == [Node |-> "NumberLiteral", N |-> n]
Str(s) == [Node |-> "StringLiteral", S |-> s]
BoolLit(b) == [Node |-> "BoolLiteral", B |-> b]
Ident(x) == [Node |-> "Identifier", Name |-> x]
Call(f, args) == [Node |-> "CallExpr", Callee |-> f, Args |-> args]
ArrayLit(es) == [Node |-> "ArrayLiteralExpr", Elements |-> es]
MapLit(ents) == [Node |-> "MapLiteralExpr", Entries |-> ents]
Entry(k, e) == [Key |-> k, Value |-> e]
Index(l, i) == [Node |-> "IndexExpr", Left |-> l, Index |-> i]
Binary(l, op, r) == [Node |-> "BinaryExpr", Left |-> l, Op |-> op, Right |-> r]

Assign(x, e) == [Node |-> "AssignStmt", Name |-> x, Value |-> e]
IndexAssign(x, i, e) ==
    [Node |-> "IndexAssignStmt", Name |-> x, Index |-> i, Value |-> e]
ExprStmt(e) == [Node |-> "ExprStmt", Expr |-> e]
If(c, t, e) == [Node |-> "IfStmt", Condition |-> c, Then |-> t, Else |-> e]
While(c, b) == [Node |-> "WhileStmt", Condition |-> c, Body |-> b]
\* NoExpr stands for the nil Step of a For without `step`
NoExpr == [Node |-> "nil"]
For(x, s, e, st, b) ==
    [Node |-> "ForStmt", Var |-> x, Start |-> s, End |-> e, Step |-> st,
     Body |-> b]
ForEach(x, ix, it, b) ==
    [Node |-> "ForEachStmt", Var |-> x, IndexVar |-> ix, Iterable |-> it,
     Body |-> b]
FunctionDecl(f, ps, b) ==
    [Node |-> "FunctionDecl", Name |-> f, Params |-> ps, Body |-> b]
Return(e) == [Node |-> "ReturnStmt", Value |-> e]
Break == [Node |-> "BreakStmt"]
Continue == [Node |-> "ContinueStmt"]
Import(p) == [Node |-> "ImportStmt", Path |-> p]
Open(n, p, m) == [Node |-> "OpenStmt", Handle |-> n, Path |-> p, Mode |-> m]
Close(n) == [Node |-> "CloseStmt", Handle |-> n]
PrintStmt(e) == [Node |-> "PrintStmt", Value |-> e]
PrintHandle(n, e) == [Node |-> "PrintHandleStmt", Handle |-> n, Value |-> e]

(***************************************************************************)
(* Error values: nil, the three signals and RuntimeError.                  *)
(***************************************************************************)
Nil == [sig |-> "nil", Val |-> NullValue, File |-> <<>>, Msg |-> "",
        Paths |-> <<>>, Stack |-> <<>>, Lines |-> <<>>]
NoRes == [Nil EXCEPT !.sig = "running"]
\* a return that loses its value
ReturnSignalNull(v) == [Nil EXCEPT !.sig = "ReturnSignal", !.Val = NullValue]

ReturnSignal(v) == [Nil EXCEPT !.sig = "ReturnSignal", !.Val = v]
BreakSignal == [Nil EXCEPT !.sig = "BreakSignal"]
ContinueSignal == [Nil EXCEPT !.sig = "ContinueSignal"]
\* the Go runtime's "fatal error: stack overflow": the process ends, no
\* deferred call runs and no caller sees an error value
StackOverflow == [Nil EXCEPT !.sig = "fatal", !.Msg = "stack overflow"]

\* the names in the order of the call stack, outermost first
Unreversed(s) == s

Reverse(s) == [k \in 1..Len(s) |-> s[Len(s) + 1 - k]]

\* The interpreter fields that evaluation reads
Interp(g, l, h, f, cs, fs, ls) ==
    [globals |-> g, locals |-> l, heap |-> h, filename |-> f,
     callStack |-> cs, funcs |-> fs, lines |-> ls]

\* runtimeErr: the message, the current file and a reversed copy of the
\* call stack (Paths holds the path lines of an import diagnostic; Lines
\* are the source lines among which the Line text of the span is looked up)
runtimeErrP(I, msg, paths) ==
    [Nil EXCEPT !.sig = "RuntimeError", !.File = I.filename, !.Msg = msg,
                !.Paths = paths, !.Stack = Reverse(I.callStack),
                !.Lines = I.lines]

runtimeErr(I, msg) == runtimeErrP(I, msg, <<>>)

\* an interpreter that never sees its frames
inFunctionNever(I) == FALSE

inFunction(I) == Len(I.locals) > 0

currentEnv(I) == IF inFunction(I) THEN I.locals[Len(I.locals)] ELSE I.globals

(***************************************************************************)
(* Expressions.  evalExpr returns the value, the heap after the            *)
(* evaluation (literals allocate, built-ins mutate) and the error.         *)
(* Messages keep the constant part of the Go format strings.               *)
(***************************************************************************)
Ok(v, h) == [val |-> v, heap |-> h, err |-> Nil]
Fail(h, e) == [val |-> NullValue, heap |-> h, err |-> e]
WithHeap(I, h) == [I EXCEPT !.heap = h]

\* numbers of the model are integers, so int(v.Number) is exact
toIndex(I, v) ==
    IF v.Kind # "ValNumber"
    THEN [idx |-> 0, err |-> runtimeErr(I, "Array index must be a number")]
    ELSE [idx |-> v.Number, err |-> Nil]

(***************************************************************************)
(* Files.  An os file is [path, mode, pos, closed]; pos counts the lines   *)
(* before the file offset.  A bufio.Reader is [fd, buf]: buf holds the     *)
(* lines read from the file and not yet handed out (the model's files are  *)
(* shorter than the reader's buffer, so one read takes the rest of the     *)
(* file).                                                                  *)
(***************************************************************************)
Without(f, k) == [x \in (DOMAIN f) \ {k} |-> f[x]]

\* strings.ToLower(strings.TrimSpace(s))
RECURSIVE TrimLeft(_)
TrimLeft(s) == IF s # <<>> /\ Head(s) = " " THEN TrimLeft(Tail(s)) ELSE s

ToLowerChar(c) ==
    CASE c = "R" -> "r" [] c = "W" -> "w" [] c = "A" -> "a" [] OTHER -> c

normMode(s) ==
    LET t == Reverse(TrimLeft(Reverse(TrimLeft(s))))
    IN [k \in 1..Len(t) |-> ToLowerChar(t[k])]

\* fmt.Sprintf("%d", n)
RECURSIVE Digits(_)
Digits(n) ==
    IF n < 10 THEN <<DigitChars[n + 1]>>
    ELSE Digits(n \div 10) \o <<DigitChars[(n % 10) + 1]>>

RECURSIVE JoinStrings(_)
JoinStrings(ss) ==
    IF ss = <<>> THEN <<>>
    ELSE IF Len(ss) = 1 THEN ss[1]
    ELSE ss[1] \o <<",", " ">> \o JoinStrings(Tail(ss))

\* fmt's %q of a string: in double quotes, `"` and `\` escaped
RECURSIVE Escaped(_)
Escaped(s) ==
    IF s = <<>> THEN <<>>
    ELSE (IF Head(s) \in {"\"", "\\"} THEN <<"\\", Head(s)>> ELSE <<Head(s)>>)
             \o Escaped(Tail(s))
Quoted(s) == <<"\"">> \o Escaped(s) \o <<"\"">>

\* Value.ToString
RECURSIVE ValueToString(_, _)
ValueToString(h, v) ==
    CASE v.Kind = "ValNumber" ->
           IF v.Number < 0 THEN <<"-">> \o Digits(0 - v.Number)
           ELSE Digits(v.Number)
      [] v.Kind = "ValString" -> v.Str
      [] v.Kind = "ValBool" ->
           IF v.Bool THEN <<"t", "r", "u", "e">> ELSE <<"f", "a", "l", "s", "e">>
      [] v.Kind = "ValArray" ->
           <<"[">> \o JoinStrings([k \in 1..Len(Elems(h, v.Arr)) |->
                                     ValueToString(h, Elems(h, v.Arr)[k])])
                  \o <<"]">>
      [] v.Kind = "ValMap" ->
           <<"{">> \o JoinStrings([k \in 1..Cardinality(DOMAIN h.maps[v.Map]) |->
                       Quoted(SortStrings(DOMAIN h.maps[v.Map])[k]) \o <<":", " ">>
                       \o ValueToString(h,
                              h.maps[v.Map][SortStrings(DOMAIN h.maps[v.Map])[k]])])
                  \o <<"}">>
      [] OTHER -> <<"n", "u", "l", "l">>

\* os.Open / os.OpenFile: the new os file, or a failure
osOpen(h, path, mode) ==
    LET fd == Len(h.fds) + 1
        file == [path |-> path, mode |-> mode, pos |-> 0, closed |-> FALSE]
    IN IF mode = <<"r">> /\ path \notin DOMAIN h.disk
       THEN [ok |-> FALSE, fd |-> 0, heap |-> h]
       ELSE [ok |-> TRUE, fd |-> fd,
             heap |-> [h EXCEPT
                 !.fds = Append(@, file),
                 !.disk = IF mode = <<"w">> THEN Bind(@, path, <<>>)
                          ELSE IF path \notin DOMAIN @ THEN Bind(@, path, <<>>)
                          ELSE @]]

\* f.Close()
osClose(h, fd) == [h EXCEPT !.fds[fd].closed = TRUE]

\* f.WriteString(line + "\n"): at the end of the file in append mode, at
\* the file offset in write mode; a file opened for reading refuses
osWrite(h, fd, line) ==
    LET f == h.fds[fd]
        old == h.disk[f.path]
    IN IF f.mode = <<"r">> \/ f.closed THEN [ok |-> FALSE, heap |-> h]
       ELSE IF f.mode = <<"a">>
       THEN [ok |-> TRUE, heap |-> [h EXCEPT !.disk[f.path] = Append(old, line)]]
       ELSE [ok |-> TRUE,
             heap |-> [h EXCEPT
                 !.disk[f.path] = SubSeq(old, 1, f.pos) \o <<line>>
                                    \o SubSeq(old, f.pos + 2, Len(old)),
                 !.fds[fd].pos = f.pos + 1]]

\* getHandleReader: the reader of the handle, created when there is none
getHandleReader(h, handle) ==
    IF handle \notin DOMAIN h.files THEN [ok |-> FALSE, heap |-> h]
    ELSE IF handle \in DOMAIN h.readers THEN [ok |-> TRUE, heap |-> h]
    ELSE [ok |-> TRUE,
          heap |-> [h EXCEPT !.readers =
                      Bind(@, handle, [fd |-> h.files[handle], buf |-> <<>>])]]

\* r.ReadString('\n') with the line end trimmed: the reader fills its
\* buffer from the file offset when the buffer is empty; `eof` when
\* nothing is left
readLine(h, handle) ==
    LET r == h.readers[handle]
        f == h.fds[r.fd]
        rest == IF f.mode = <<"r">> /\ ~f.closed
                THEN SubSeq(h.disk[f.path], f.pos + 1, Len(h.disk[f.path]))
                ELSE <<>>
        buf == IF r.buf # <<>> THEN r.buf ELSE rest
        h1 == IF r.buf # <<>> THEN h
              ELSE [h EXCEPT !.fds[r.fd].pos = f.pos + Len(rest)]
    IN IF buf = <<>> THEN [eof |-> TRUE, line |-> <<>>, heap |-> h1]
       ELSE [eof |-> FALSE, line |-> Head(buf),
             heap |-> [h1 EXCEPT !.readers[handle].buf = Tail(buf)]]

\* the values held by an array or a map
Held(h, v) ==
    IF v.Kind = "ValArray" THEN {Elems(h, v.Arr)[k] : k \in 1..Len(Elems(h, v.Arr))}
    ELSE IF v.Kind = "ValMap" THEN {h.maps[v.Map][k] : k \in DOMAIN h.maps[v.Map]}
    ELSE {}
IsContainer(v) == v.Kind \in {"ValArray", "ValMap"}
Objects(h) == Len(h.arrs) + Len(h.maps)

\* ToString of v calls itself more than n levels deep
RECURSIVE Nests(_, _, _)
Nests(h, v, n) ==
    /\ IsContainer(v)
    /\ \/ n = 0
       \/ \E c \in Held(h, v) : Nests(h, c, n - 1)

\* ToString of v never returns: a chain of containers longer than the number
\* of objects passes through one of them twice, and the recursion has
\* nothing that stops it there
ToStringEndless(h, v) == Nests(h, v, Objects(h))

\* valuesEqual(a, b) with at most n further levels of recursion: "true",
\* "false", or "endless" when the levels are used up.  Arrays are compared
\* element by element up to the first difference.  Go walks a map in no
\* fixed order: a map comparison is endless when one of its entries is,
\* which the walk may meet before an entry that differs.
RECURSIVE equalWithin(_, _, _, _)
RECURSIVE firstDecided(_, _, _, _, _)
firstDecided(h, ea, eb, k, n) ==
    IF k > Len(ea) THEN "true"
    ELSE IF equalWithin(h, ea[k], eb[k], n) # "true"
    THEN equalWithin(h, ea[k], eb[k], n)
    ELSE firstDecided(h, ea, eb, k + 1, n)
equalWithin(h, a, b, n) ==
    IF a.Kind # b.Kind THEN "false"
    ELSE IF a.Kind = "ValArray"
    THEN IF Len(Elems(h, a.Arr)) # Len(Elems(h, b.Arr)) THEN "false"
         ELSE IF n = 0 THEN "endless"
         ELSE firstDecided(h, Elems(h, a.Arr), Elems(h, b.Arr), 1, n - 1)
    ELSE IF a.Kind = "ValMap"
    THEN IF Cardinality(DOMAIN h.maps[a.Map]) # Cardinality(DOMAIN h.maps[b.Map])
         THEN "false"
         ELSE IF n = 0 THEN "endless"
         ELSE IF \E k \in (DOMAIN h.maps[a.Map]) \cap (DOMAIN h.maps[b.Map]) :
                    equalWithin(h, h.maps[a.Map][k], h.maps[b.Map][k], n - 1)
                        = "endless"
         THEN "endless"
         ELSE IF \A k \in DOMAIN h.maps[a.Map] :
                    /\ k \in DOMAIN h.maps[b.Map]
                    /\ equalWithin(h, h.maps[a.Map][k], h.maps[b.Map][k], n - 1)
                          = "true"
         THEN "true"
         ELSE "false"
    ELSE IF a = b THEN "true" ELSE "false"

\* valuesEqual(a, b) never returns: more levels than there are pairs of
\* objects means that one pair is compared inside itself
EqualEndless(h, a, b) ==
    equalWithin(h, a, b, Objects(h) * Objects(h)) = "endless"

\* an equality that asks whether the two values are the same object
valuesEqualShared(h, a, b) == a = b

RECURSIVE valuesEqual(_, _, _)
valuesEqual(h, a, b) ==
    IF a.Kind # b.Kind THEN FALSE
    ELSE CASE a.Kind = "ValNull" -> TRUE
           [] a.Kind = "ValNumber" -> a.Number = b.Number
           [] a.Kind = "ValString" -> a.Str = b.Str
           [] a.Kind = "ValBool" -> a.Bool = b.Bool
           [] a.Kind = "ValArray" ->
                LET ea == Elems(h, a.Arr)
                    eb == Elems(h, b.Arr)
                IN /\ Len(ea) = Len(eb)
                   /\ \A k \in 1..Len(ea) : valuesEqual(h, ea[k], eb[k])
           [] a.Kind = "ValMap" ->
                LET am == h.maps[a.Map]
                    bm == h.maps[b.Map]
                IN /\ Cardinality(DOMAIN am) = Cardinality(DOMAIN bm)
                   /\ \A k \in DOMAIN am :
                         k \in DOMAIN bm /\ valuesEqual(h, am[k], bm[k])

\* the map built by a map literal: a later entry with the same key wins
LiteralMap(ents, vals) ==
    [key \in {ents[k].Key : k \in 1..Len(ents)} |->
        LET last == CHOOSE k \in 1..Len(ents) :
                       /\ ents[k].Key = key
                       /\ \A j \in (k + 1)..Len(ents) : ents[j].Key # key
        IN vals[last]]

\* a delete that removes nothing
mapDeleteNothing(m, key) == m

\* delete(m, key)
mapDelete(m, key) == [k \in (DOMAIN m) \ {key} |-> m[k]]

\* an insert that cannot append
insertInRangeStrict(idx, n) == idx >= 0 /\ idx < n

\* insert: \`idx < 0 || idx > len(Elems)\` is out of bounds
insertInRange(idx, n) == idx >= 0 /\ idx <= n

\* keys: the array of the sorted keys ks, as string values
keysOf(h, ks) ==
    Ok(ArrayValue(h, [k \in 1..Len(ks) |-> StringValue(ks[k])]).val,
       ArrayValue(h, [k \in 1..Len(ks) |-> StringValue(ks[k])]).heap)

\* evalBuiltin after its arguments are evaluated (h is the heap then)
evalBuiltin(I, h, name, args) ==
    LET J == WithHeap(I, h)
        isArr == Len(args) >= 1 /\ args[1].Kind = "ValArray"
        isMap == Len(args) >= 1 /\ args[1].Kind = "ValMap"
        o == args[1].Arr
        hd == h.arrs[o]
        data == h.bufs[hd.buf]
    IN CASE name = "len" ->
              IF Len(args) # 1 THEN Fail(h, runtimeErr(J, "len() expects 1 arg"))
              ELSE IF args[1].Kind = "ValString"
                   THEN Ok(NumberValue(Len(args[1].Str)), h)
              ELSE IF isArr THEN Ok(NumberValue(hd.len), h)
              ELSE IF isMap
                   THEN Ok(NumberValue(Cardinality(DOMAIN h.maps[args[1].Map])), h)
              ELSE Fail(h, runtimeErr(J, "len() expects a string, array, or map"))
         [] name = "has" ->
              IF Len(args) # 2
              THEN Fail(h, runtimeErr(J, "has() expects 2 args: has(map, key)"))
              ELSE IF ~isMap
                   THEN Fail(h, runtimeErr(J, "has() first argument must be a map"))
              ELSE IF args[2].Kind # "ValString"
                   THEN Fail(h, runtimeErr(J, "has() key must be a string"))
              ELSE Ok(BoolValue(args[2].Str \in DOMAIN h.maps[args[1].Map]), h)
         [] name = "keys" ->
              IF Len(args) # 1
              THEN Fail(h, runtimeErr(J, "keys() expects 1 arg: keys(map)"))
              ELSE IF ~isMap THEN Fail(h, runtimeErr(J, "keys() expects a map"))
              ELSE keysOf(h, SortStrings(DOMAIN h.maps[args[1].Map]))
         [] name = "str" ->
              IF Len(args) # 1 THEN Fail(h, runtimeErr(J, "str() expects 1 arg"))
              ELSE IF ToStringEndless(h, args[1]) THEN Fail(h, StackOverflow)
              ELSE Ok(StringValue(ValueToString(h, args[1])), h)
         [] name = "del" ->
              IF Len(args) # 2
              THEN Fail(h, runtimeErr(J, "del() expects 2 args: del(map, key)"))
              ELSE IF ~isMap
                   THEN Fail(h, runtimeErr(J, "del() first argument must be a map"))
              ELSE IF args[2].Kind # "ValString"
                   THEN Fail(h, runtimeErr(J, "del() key must be a string"))
              ELSE Ok(NullValue,
                      [h EXCEPT !.maps[args[1].Map] = mapDelete(@, args[2].Str)])
         [] name = "push" ->
              IF Len(args) # 2
              THEN Fail(h, runtimeErr(J, "push() expects 2 arguments: push(array, value)"))
              ELSE IF ~isArr
                   THEN Fail(h, runtimeErr(J, "push() first argument must be an array"))
              ELSE LET r == GoAppend(h, hd, args[2])
                   IN Ok(NullValue, [r.heap EXCEPT !.arrs[o] = r.hd])
         [] name = "pop" ->
              IF Len(args) # 1
              THEN Fail(h, runtimeErr(J, "pop() expects 1 argument: pop(array)"))
              ELSE IF ~isArr
                   THEN Fail(h, runtimeErr(J, "pop() first argument must be an array"))
              ELSE IF hd.len = 0
                   THEN Fail(h, runtimeErr(J, "pop() cannot pop from an empty array"))
              ELSE Ok(data[hd.len], [h EXCEPT !.arrs[o].len = hd.len - 1])
         [] name = "insert" ->
              IF Len(args) # 3
              THEN Fail(h, runtimeErr(J,
                     "insert() expects 3 arguments: insert(array, index, value)"))
              ELSE IF ~isArr
                   THEN Fail(h, runtimeErr(J, "insert() first argument must be an array"))
              ELSE LET ix == toIndex(J, args[2])
                   IN IF ix.err.sig # "nil" THEN Fail(h, ix.err)
                      ELSE IF ~insertInRange(ix.idx, hd.len)
                           THEN Fail(h, runtimeErr(J, "insert() index out of bounds"))
                      ELSE LET r == GoAppend(h, hd, NullValue)
                               old == r.heap.bufs[r.hd.buf]
                               \* copy(elems[idx+1:], elems[idx:]); elems[idx] = v
                               new == [k \in 1..Len(old) |->
                                         IF k = ix.idx + 1 THEN args[3]
                                         ELSE IF k > ix.idx + 1 /\ k <= r.hd.len
                                              THEN old[k - 1]
                                         ELSE old[k]]
                           IN Ok(NullValue,
                                 [r.heap EXCEPT !.bufs[r.hd.buf] = new,
                                                !.arrs[o] = r.hd])
         [] name = "remove" ->
              IF Len(args) # 2
              THEN Fail(h, runtimeErr(J, "remove() expects 2 arguments: remove(array, index)"))
              ELSE IF ~isArr
                   THEN Fail(h, runtimeErr(J, "remove() first argument must be an array"))
              ELSE LET ix == toIndex(J, args[2])
                   IN IF ix.err.sig # "nil" THEN Fail(h, ix.err)
                      ELSE IF ix.idx < 0 \/ ix.idx >= hd.len
                           THEN Fail(h, runtimeErr(J, "remove() index out of bounds"))
                      ELSE LET \* append(Elems[:idx], Elems[idx+1:]...) moves the
                               \* tail down inside the same backing array
                               new == [k \in 1..Len(data) |->
                                         IF k > ix.idx /\ k < hd.len
                                         THEN data[k + 1] ELSE data[k]]
                           IN Ok(data[ix.idx + 1],
                                 [h EXCEPT !.bufs[hd.buf] = new,
                                           !.arrs[o].len = hd.len - 1])
         [] name = "lineinput" ->
              IF Len(args) # 1 \/ args[1].Kind # "ValNumber"
              THEN Fail(h, runtimeErr(J,
                     "lineinput() expects 1 number arg: lineinput(handle)"))
              ELSE IF args[1].Number <= 0
                   THEN Fail(h, runtimeErr(J,
                          "lineinput() handle must be a positive integer"))
              ELSE LET g == getHandleReader(h, args[1].Number)
                   IN IF ~g.ok
                      THEN Fail(h, runtimeErr(J, "lineinput() failed: handle is not open"))
                      ELSE LET rd == readLine(g.heap, args[1].Number)
                           IN IF rd.eof THEN Ok(NullValue, rd.heap)
                              ELSE Ok(StringValue(rd.line), rd.heap)
         [] OTHER -> Fail(h, runtimeErr(J, "Undefined function"))

\* Calls of user functions are steps of the machine (ExecCall below); the
\* programs of the model place them as the whole expression of a statement,
\* so a CallExpr met inside evalExpr names a built-in.
RECURSIVE evalExpr(_, _)
RECURSIVE evalList(_, _)
\* the values of a list of expressions, left to right: r is the result
\* for the first, rs the results for the others
consVals(r, rs) ==
    [vals |-> <<r.val>> \o rs.vals, heap |-> rs.heap, err |-> rs.err]

evalRest(I, r, es) ==
    IF r.err.sig # "nil" THEN [vals |-> <<>>, heap |-> r.heap, err |-> r.err]
    ELSE consVals(r, evalList(WithHeap(I, r.heap), es))

evalList(I, es) ==
    IF es = <<>> THEN [vals |-> <<>>, heap |-> I.heap, err |-> Nil]
    ELSE evalRest(I, evalExpr(I, Head(es)), Tail(es))

evalBinary(I, h, op, left, right) ==
    LET J == WithHeap(I, h)
        bothNum == left.Kind = "ValNumber" /\ right.Kind = "ValNumber"
    IN CASE op = "+" /\ bothNum -> Ok(NumberValue(left.Number + right.Number), h)
         [] op = "+" /\ left.Kind = "ValArray" /\ right.Kind = "ValArray" ->
              LET r == ArrayValue(h, Elems(h, left.Arr) \o Elems(h, right.Arr))
              IN Ok(r.val, r.heap)
         [] op = "+" /\ ~bothNum
                       /\ ~(left.Kind = "ValArray" /\ right.Kind = "ValArray") ->
              IF ToStringEndless(h, left) \/ ToStringEndless(h, right)
              THEN Fail(h, StackOverflow)
              ELSE Ok(StringValue(ValueToString(h, left) \o ValueToString(h, right)), h)
         [] op = "==" ->
              IF EqualEndless(h, left, right) THEN Fail(h, StackOverflow)
              ELSE Ok(BoolValue(valuesEqual(h, left, right)), h)
         [] op = "!=" ->
              IF EqualEndless(h, left, right) THEN Fail(h, StackOverflow)
              ELSE Ok(BoolValue(~valuesEqual(h, left, right)), h)
         [] op \in {"<", ">", "<=", ">="} /\ bothNum ->
              Ok(BoolValue(CASE op = "<" -> left.Number < right.Number
                             [] op = ">" -> left.Number > right.Number
                             [] op = "<=" -> left.Number <= right.Number
                             [] op = ">=" -> left.Number >= right.Number), h)
         [] op \in {"<", ">", "<=", ">="} /\ left.Kind = "ValString"
                                        /\ right.Kind = "ValString" ->
              Ok(BoolValue(CASE op = "<" -> StrLess(left.Str, right.Str)
                             [] op = ">" -> StrLess(right.Str, left.Str)
                             [] op = "<=" -> ~StrLess(right.Str, left.Str)
                             [] op = ">=" -> ~StrLess(left.Str, right.Str)), h)
         [] op \in {"<", ">", "<=", ">="} ->
              Fail(h, runtimeErr(J, "Operator requires two numbers or two strings"))
         [] op \in {"-", "*"} /\ ~bothNum ->
              Fail(h, runtimeErr(J, "Operator requires numbers"))
         [] op = "-" -> Ok(NumberValue(left.Number - right.Number), h)
         [] op = "*" -> Ok(NumberValue(left.Number * right.Number), h)

evalIndex(I, h, left, iv) ==
    LET J == WithHeap(I, h)
    IN IF left.Kind = "ValArray"
       THEN LET ix == toIndex(J, iv)
            IN IF ix.err.sig # "nil" THEN Fail(h, ix.err)
               ELSE IF ix.idx < 0 \/ ix.idx >= h.arrs[left.Arr].len
                    THEN Fail(h, runtimeErr(J, "Array index out of bounds"))
               ELSE Ok(h.bufs[h.arrs[left.Arr].buf][ix.idx + 1], h)
       ELSE IF left.Kind = "ValMap"
       THEN IF iv.Kind # "ValString"
            THEN Fail(h, runtimeErr(J, "Map key must be a string"))
            ELSE IF iv.Str \notin DOMAIN h.maps[left.Map]
                 THEN Fail(h, runtimeErr(J, "Map key not found"))
            ELSE Ok(h.maps[left.Map][iv.Str], h)
       ELSE Fail(h, runtimeErr(J, "Indexing requires an array or map"))

\* evalExpr, the cases with operands: rs holds the operands' values
arrayOf(rs) ==
    IF rs.err.sig # "nil" THEN Fail(rs.heap, rs.err)
    ELSE Ok(ArrayValue(rs.heap, rs.vals).val, ArrayValue(rs.heap, rs.vals).heap)

mapOf(e, rs) ==
    IF rs.err.sig # "nil" THEN Fail(rs.heap, rs.err)
    ELSE Ok(MapValue(rs.heap, LiteralMap(e.Entries, rs.vals)).val,
            MapValue(rs.heap, LiteralMap(e.Entries, rs.vals)).heap)

indexOf(I, rs) ==
    IF rs.err.sig # "nil" THEN Fail(rs.heap, rs.err)
    ELSE evalIndex(I, rs.heap, rs.vals[1], rs.vals[2])

builtinOf(I, e, rs) ==
    IF rs.err.sig # "nil" THEN Fail(rs.heap, rs.err)
    ELSE evalBuiltin(I, rs.heap, e.Callee, rs.vals)

binaryOf(I, e, rs) ==
    IF rs.err.sig # "nil" THEN Fail(rs.heap, rs.err)
    ELSE evalBinary(I, rs.heap, e.Op, rs.vals[1], rs.vals[2])

evalExpr(I, e) ==
    CASE e.Node = "StringLiteral" -> Ok(StringValue(e.S), I.heap)
      [] e.Node = "NumberLiteral" -> Ok(NumberValue(e.N), I.heap)
      [] e.Node = "BoolLiteral" -> Ok(BoolValue(e.B), I.heap)
      [] e.Node = "ArrayLiteralExpr" -> arrayOf(evalList(I, e.Elements))
      [] e.Node = "MapLiteralExpr" ->
           mapOf(e, evalList(I, [k \in 1..Len(e.Entries) |-> e.Entries[k].Value]))
      [] e.Node = "IndexExpr" -> indexOf(I, evalList(I, <<e.Left, e.Index>>))
      [] e.Node = "Identifier" ->
           IF inFunction(I) /\ e.Name \in DOMAIN currentEnv(I)
           THEN Ok(currentEnv(I)[e.Name], I.heap)
           ELSE IF e.Name \in DOMAIN I.globals
                THEN Ok(I.globals[e.Name], I.heap)
           ELSE Fail(I.heap, runtimeErr(I, "Undefined variable"))
      [] e.Node = "CallExpr" -> builtinOf(I, e, evalList(I, e.Args))
      [] e.Node = "BinaryExpr" -> binaryOf(I, e, evalList(I, <<e.Left, e.Right>>))

(***************************************************************************)
(* The file system seen by import: the process works in Cwd; Files maps    *)
(* the path of each source file to its parsed program, Dirs are the        *)
(* directories.                                                            *)
(***************************************************************************)
Cwd == <<Root, <<"proj", "">>>>
Rel(stem) == <<<<stem, "">>>>
InCwd(stem) == Cwd \o <<<<stem, ".bpl">>>>

\* m.bpl:    x = 1
\*           function f() return 2 end
ModM == <<Assign("x", Num(1)), FunctionDecl("f", <<>>, <<Return(Num(2))>>)>>
\* a.bpl:    import "b"          b.bpl:    ya = 1
\*           xa = 1                        import "a"
ModA == <<Import(Rel("b")), Assign("xa", Num(1))>>
ModB == <<Assign("ya", Num(1)), Import(Rel("a"))>>
\* s.bpl:    import "s"
ModS == <<Import(Rel("s"))>>
\* bad.bpl:  y = 1
\*           z = u
ModBad == <<Assign("y", Num(1)), Assign("z", Ident("u"))>>

\* c.bpl:    import "m"
\*           zc = nope
ModC == <<Import(Rel("m")), Assign("zc", Ident("nope"))>>

\* lib/x.bpl:  import "m"
\*             vx = 1
ModX == <<Import(Rel("m")), Assign("vx", Num(1))>>
InLib(stem) == Cwd \o <<<<"lib", "">>, <<stem, ".bpl">>>>

Files ==
    (InCwd("m") :> ModM) @@ (InCwd("a") :> ModA) @@ (InCwd("b") :> ModB)
    @@ (InCwd("s") :> ModS) @@ (InCwd("bad") :> ModBad) @@ (InCwd("c") :> ModC)
    @@ (InLib("x") :> ModX)

Dirs == {<<Root>>, Cwd, Cwd \o <<<<"lib", "">>>>}

\* os.Stat(p) succeeds; a relative path is taken from the working directory
fileExists(p) ==
    LET abs == IF IsAbs(p) THEN p ELSE Join(Cwd, p)
    IN abs \in (DOMAIN Files) \cup Dirs

\* the candidates of one base directory, in the order of importCandidates
CandidatesIn(dir, raw) ==
    LET lib == dir \o <<<<"lib", "">>>>
    IN <<Join(dir, raw)>>
       \o (IF NoExt(raw) THEN <<Join(dir, WithBpl(raw))>> ELSE <<>>)
       \o <<Join(lib, raw)>>
       \o (IF NoExt(raw) THEN <<Join(lib, WithBpl(raw))>> ELSE <<>>)

\* the loop over `seen`: first occurrences, order kept
RECURSIVE Dedup(_)
Dedup(s) ==
    IF s = <<>> THEN <<>>
    ELSE LET r == Dedup(SubSeq(s, 1, Len(s) - 1))
             c == s[Len(s)]
         IN IF \E k \in 1..Len(r) : r[k] = c THEN r ELSE Append(r, c)

importCandidates(raw, importerFilename) ==
    IF raw = <<>> THEN <<>>
    ELSE IF IsAbs(raw)
    THEN <<Clean(raw)>> \o (IF NoExt(raw) THEN <<Clean(WithBpl(raw))>> ELSE <<>>)
    ELSE Dedup((IF importerFilename # <<>>
                THEN CandidatesIn(Dir(importerFilename), raw) ELSE <<>>)
               \o CandidatesIn(Dot, raw))

resolveImportPath(raw, importerFilename) ==
    LET cands == importCandidates(raw, importerFilename)
        hits == {k \in 1..Len(cands) : fileExists(cands[k])}
    IN [tried |-> cands,
        resolved |-> IF hits # {}
                     THEN cands[CHOOSE k \in hits : \A j \in hits : k <= j]
                     ELSE IF Len(cands) > 0 THEN cands[1] ELSE raw]

\* a message that lists the stack from the innermost module on
circularImportMessageInnermostFirst(stack, target) ==
    Append(Reverse(stack), target)

\* the lines of the message after its first: the stack, then the target
circularImportMessage(stack, target) == Append(stack, target)

\* a registry that does not remember loaded modules
ModStateForgetsLoaded(mods, p) ==
    IF p \in DOMAIN mods /\ mods[p] = "modLoading" THEN "modLoading"
    ELSE "modNone"

\* i.modules[p]: a missing key reads as the zero value modNone
ModState(mods, p) == IF p \in DOMAIN mods THEN mods[p] ELSE "modNone"

\* a registry that marks a module Loaded whatever its program returned
moduleStateAfterAlwaysLoaded(runErr) == "modLoaded"

\* the state execImport stores after Run(prog) returned runErr
moduleStateAfter(runErr) ==
    IF runErr.sig # "nil" THEN "modNone" ELSE "modLoaded"

(***************************************************************************)
(* The machine.                                                            *)
(***************************************************************************)
\* the interpreter as the evaluation operators read it
Me == Interp(globals, locals, heap, filename, callStack, funcs, lines)

Top == kont[Len(kont)]
Pop(k) == SubSeq(k, 1, Len(k) - 1)

\* an activation of Run(stmts) about to execute stmts[pc]
RunFrame(stmts) == [k |-> "Run", stmts |-> stmts, pc |-> 1]

\* the top activation is a Run with a statement left to execute
AtStmt == /\ res.sig = "running"
          /\ Len(kont) > 0
          /\ Top.k = "Run"
          /\ Top.pc <= Len(Top.stmts)

Cur == Top.stmts[Top.pc]

StmtIs(node) == AtStmt /\ Cur.Node = node

\* a finished activation handed its result to the activation `kind`
Returned(kind) == /\ res.sig # "running"
                  /\ Len(kont) > 0
                  /\ Top.k = kind

\* Run's loop after execStmt has returned e for the statement of the top
\* Run activation of k: go on with the next statement, or return e
StmtDone(k, e) ==
    IF e.sig = "nil"
    THEN [kont |-> [k EXCEPT ![Len(k)].pc = @ + 1], res |-> NoRes]
    ELSE IF e.sig = "fatal" THEN [kont |-> <<>>, res |-> e]
    ELSE [kont |-> Pop(k), res |-> e]

\* i.currentEnv()[name] = v
setVar(I, name, v) ==
    IF inFunction(I)
    THEN [globals |-> I.globals,
          locals |-> [I.locals EXCEPT ![Len(I.locals)] = Bind(@, name, v)]]
    ELSE [globals |-> Bind(I.globals, name, v), locals |-> I.locals]

\* the names evalBuiltin knows (those of the model)
BuiltinNames ==
    {"len", "has", "del", "push", "pop", "insert", "remove", "lineinput",
     "keys", "str"}

\* a resolution that looks at the built-ins first
IsUserCallBuiltinFirst(e) ==
    e.Node = "CallExpr" /\ e.Callee \in (DOMAIN funcs) \ BuiltinNames

\* evalCall: `if fn, ok := i.funcs[call.Callee]; ok`
IsUserCall(e) == e.Node = "CallExpr" /\ e.Callee \in DOMAIN funcs

\* the file name the REPL gives its n-th chunk: <cwd>/<repl:n>
replChunkFilename(n) ==
    Cwd \o <<<<CASE n = 1 -> "<repl:1>" [] n = 2 -> "<repl:2>"
                 [] n = 3 -> "<repl:3>" [] n = 4 -> "<repl:4>"
                 [] OTHER -> "<repl:n>", "">>>>

\* New(): every table empty, no source
\* no source text has been given to the Lexer
NoFront == [src |-> <<>>, pos |-> 0, toks |-> <<>>, parsed |-> FALSE,
            err |-> FALSE, stmts |-> <<>>]

Init ==
    /\ globals = EmptyEnv
    /\ locals = <<>>
    /\ funcs = EmptyEnv
    /\ filename = <<>>
    /\ callStack = <<>>
    /\ modules = EmptyEnv
    /\ moduleStack = <<>>
    /\ heap = EmptyHeap
    /\ kont = <<>>
    /\ res = Nil
    /\ chunks = 0
    /\ importLog = <<>>
    /\ front = NoFront
    /\ lines = <<>>

\* splitLinesPreserve of the text of file, whose program is prog: one line
\* for each statement of the program, a line being known by its file and
\* its number
splitLinesPreserve(file, prog) ==
    [k \in 1..Len(prog) |-> [file |-> file, line |-> k]]

\* the REPL hands the next chunk to the session: SetSource, then Run
StartRun(programs) ==
    /\ kont = <<>>
    /\ res.sig # "fatal"
    /\ chunks < MaxChunks
    /\ \E n \in 1..Len(programs) :
          /\ kont' = <<RunFrame(programs[n])>>
          /\ lines' = splitLinesPreserve(replChunkFilename(chunks + 1),
                                         programs[n])
    /\ chunks' = chunks + 1
    /\ filename' = replChunkFilename(chunks + 1)
    /\ res' = NoRes
    /\ UNCHANGED <<globals, locals, funcs, callStack, modules, moduleStack,
                   heap, importLog>>
    /\ UNCHANGED front

\* Run: the statements are exhausted, return nil
RunReturn ==
    /\ res.sig = "running"
    /\ Len(kont) > 0
    /\ Top.k = "Run"
    /\ Top.pc > Len(Top.stmts)
    /\ kont' = Pop(kont)
    /\ res' = Nil
    /\ UNCHANGED <<globals, locals, funcs, filename, callStack, modules,
                   moduleStack, heap, chunks, importLog>>
    /\ UNCHANGED <<front, lines>>

\* Run: the statement that ran a nested activation (If, loops, calls,
\* import) has returned res
RunResume ==
    /\ Returned("Run")
    /\ kont' = StmtDone(kont, res).kont
    /\ res' = StmtDone(kont, res).res
    /\ UNCHANGED <<globals, locals, funcs, filename, callStack, modules,
                   moduleStack, heap, chunks, importLog>>
    /\ UNCHANGED <<front, lines>>

\* execStmt, AssignStmt
ExecAssign ==
    /\ StmtIs("AssignStmt")
    /\ ~IsUserCall(Cur.Value)
    /\ LET r == evalExpr(Me, Cur.Value)
           env == setVar(WithHeap(Me, r.heap), Cur.Name, r.val)
       IN /\ heap' = r.heap
          /\ globals' = IF r.err.sig = "nil" THEN env.globals ELSE globals
          /\ locals' = IF r.err.sig = "nil" THEN env.locals ELSE locals
          /\ kont' = StmtDone(kont, r.err).kont
          /\ res' = StmtDone(kont, r.err).res
    /\ UNCHANGED <<funcs, filename, callStack, modules, moduleStack, chunks,
                   importLog>>
    /\ UNCHANGED <<front, lines>>

\* execStmt, ExprStmt
ExecExprStmt ==
    /\ StmtIs("ExprStmt")
    /\ ~IsUserCall(Cur.Expr)
    /\ LET r == evalExpr(Me, Cur.Expr)
       IN /\ heap' = r.heap
          /\ kont' = StmtDone(kont, r.err).kont
          /\ res' = StmtDone(kont, r.err).res
    /\ UNCHANGED <<globals, locals, funcs, filename, callStack, modules,
                   moduleStack, chunks, importLog>>
    /\ UNCHANGED <<front, lines>>

\* findVarEnv: the top frame when it binds the name, else globals
findVarEnv(I, name) ==
    IF inFunction(I) /\ name \in DOMAIN currentEnv(I)
    THEN [ok |-> TRUE, val |-> currentEnv(I)[name]]
    ELSE IF name \in DOMAIN I.globals
         THEN [ok |-> TRUE, val |-> I.globals[name]]
    ELSE [ok |-> FALSE, val |-> NullValue]

\* execIndexAssign, the store into container c of the evaluated index and
\* value rs; its `env[stmt.Name] = containerVal` stores the value the name
\* already has
storeIndexed(I, c, rs) ==
    LET h == rs.heap
        J == WithHeap(I, h)
        iv == rs.vals[1]
        newVal == rs.vals[2]
        ix == toIndex(J, iv)
    IN IF ~c.ok THEN Fail(I.heap, runtimeErr(I, "Undefined variable"))
       ELSE IF rs.err.sig # "nil" THEN Fail(h, rs.err)
       ELSE IF c.val.Kind = "ValArray"
       THEN IF ix.err.sig # "nil" THEN Fail(h, ix.err)
            ELSE IF ix.idx < 0 \/ ix.idx >= h.arrs[c.val.Arr].len
                 THEN Fail(h, runtimeErr(J, "Array index out of bounds"))
            ELSE Ok(NullValue,
                    [h EXCEPT !.bufs[h.arrs[c.val.Arr].buf][ix.idx + 1] = newVal])
       ELSE IF c.val.Kind = "ValMap"
       THEN IF iv.Kind # "ValString"
            THEN Fail(h, runtimeErr(J, "Map key must be a string"))
            ELSE Ok(NullValue,
                    [h EXCEPT !.maps[c.val.Map] = Bind(@, iv.Str, newVal)])
       ELSE Fail(h, runtimeErr(J, "Index assignment requires an array or map"))

\* execIndexAssign: the container is looked up by name, then the index and
\* the value are evaluated
execIndexAssign(I, stmt) ==
    storeIndexed(I, findVarEnv(I, stmt.Name),
                 evalList(I, <<stmt.Index, stmt.Value>>))

\* execStmt, IndexAssignStmt
ExecIndexAssign ==
    /\ StmtIs("IndexAssignStmt")
    /\ LET r == execIndexAssign(Me, Cur)
       IN /\ heap' = r.heap
          /\ kont' = StmtDone(kont, r.err).kont
          /\ res' = StmtDone(kont, r.err).res
    /\ UNCHANGED <<globals, locals, funcs, filename, callStack, modules,
                   moduleStack, chunks, importLog>>
    /\ UNCHANGED <<front, lines>>

\* a declaration that leaves an existing entry alone
declareKeepsFirst(fs, stmt) ==
    IF stmt.Name \in DOMAIN fs THEN fs ELSE Bind(fs, stmt.Name, stmt)

\* i.funcs[st.Name] = st
declare(fs, stmt) == Bind(fs, stmt.Name, stmt)

\* execStmt, FunctionDecl
ExecFunctionDecl ==
    /\ StmtIs("FunctionDecl")
    /\ funcs' = declare(funcs, Cur)
    /\ kont' = StmtDone(kont, Nil).kont
    /\ res' = NoRes
    /\ UNCHANGED <<globals, locals, filename, callStack, modules, moduleStack,
                   heap, chunks, importLog>>
    /\ UNCHANGED <<front, lines>>

\* execStmt, ReturnStmt
ExecReturn ==
    /\ StmtIs("ReturnStmt")
    /\ ~(inFunction(Me) /\ IsUserCall(Cur.Value))
    /\ LET r == evalExpr(Me, Cur.Value)
           e == IF ~inFunction(Me)
                THEN runtimeErr(Me, "Return is only valid inside a function")
                ELSE IF r.err.sig # "nil" THEN r.err
                ELSE ReturnSignal(r.val)
       IN /\ heap' = IF inFunction(Me) THEN r.heap ELSE heap
          /\ kont' = StmtDone(kont, e).kont
          /\ res' = StmtDone(kont, e).res
    /\ UNCHANGED <<globals, locals, funcs, filename, callStack, modules,
                   moduleStack, chunks, importLog>>
    /\ UNCHANGED <<front, lines>>

\* execStmt, BreakStmt
ExecBreak ==
    /\ StmtIs("BreakStmt")
    /\ kont' = StmtDone(kont, BreakSignal).kont
    /\ res' = StmtDone(kont, BreakSignal).res
    /\ UNCHANGED <<globals, locals, funcs, filename, callStack, modules,
                   moduleStack, heap, chunks, importLog>>
    /\ UNCHANGED <<front, lines>>

\* execStmt, ContinueStmt
ExecContinue ==
    /\ StmtIs("ContinueStmt")
    /\ kont' = StmtDone(kont, ContinueSignal).kont
    /\ res' = StmtDone(kont, ContinueSignal).res
    /\ UNCHANGED <<globals, locals, funcs, filename, callStack, modules,
                   moduleStack, heap, chunks, importLog>>
    /\ UNCHANGED <<front, lines>>

\* execStmt, IfStmt: `return i.Run(branch)`, so the branch's result goes
\* straight to the enclosing Run
ExecIf ==
    /\ StmtIs("IfStmt")
    /\ LET r == evalExpr(Me, Cur.Condition)
           e == IF r.err.sig # "nil" THEN r.err
                ELSE IF r.val.Kind # "ValBool"
                     THEN runtimeErr(Me, "If condition must be boolean")
                ELSE Nil
       IN /\ heap' = r.heap
          /\ IF e.sig # "nil"
             THEN /\ kont' = StmtDone(kont, e).kont
                  /\ res' = StmtDone(kont, e).res
             ELSE /\ kont' = Append(kont, RunFrame(IF r.val.Bool THEN Cur.Then
                                                   ELSE Cur.Else))
                  /\ res' = NoRes
    /\ UNCHANGED <<globals, locals, funcs, filename, callStack, modules,
                   moduleStack, chunks, importLog>>
    /\ UNCHANGED <<front, lines>>

\* the head of the While loop of activation stack k (its top is the Run
\* that holds the While statement, or the While activation itself)
whileHead(k, stmt, r) ==
    IF r.err.sig # "nil" THEN [kont |-> k, res |-> r.err, heap |-> r.heap]
    ELSE IF r.val.Kind # "ValBool"
    THEN [kont |-> k, res |-> runtimeErr(Me, "While condition must be boolean"),
          heap |-> r.heap]
    ELSE IF ~r.val.Bool THEN [kont |-> k, res |-> Nil, heap |-> r.heap]
    ELSE [kont |-> k \o <<[k |-> "While", stmt |-> stmt],
                           RunFrame(stmt.Body)>>,
          res |-> NoRes, heap |-> r.heap]

WhileTest(k, stmt) == whileHead(k, stmt, evalExpr(Me, stmt.Condition))

\* the machine takes up the outcome w of a loop head
Adopt(w) ==
    /\ kont' = w.kont
    /\ res' = w.res
    /\ heap' = w.heap

\* fmt.Println(val.ToString()) for the value r of stmt.Value
printed(k, r) ==
    IF r.err.sig # "nil"
    THEN [kont |-> StmtDone(k, r.err).kont, res |-> StmtDone(k, r.err).res,
          heap |-> r.heap]
    ELSE IF ToStringEndless(r.heap, r.val)
    THEN [kont |-> StmtDone(k, StackOverflow).kont,
          res |-> StmtDone(k, StackOverflow).res, heap |-> r.heap]
    ELSE [kont |-> StmtDone(k, Nil).kont, res |-> StmtDone(k, Nil).res,
          heap |-> [r.heap EXCEPT !.out = Append(@, ValueToString(r.heap, r.val))]]

\* execStmt, PrintStmt
ExecPrint ==
    /\ StmtIs("PrintStmt")
    /\ ~IsUserCall(Cur.Value)
    /\ Adopt(printed(kont, evalExpr(Me, Cur.Value)))
    /\ UNCHANGED <<globals, locals, funcs, filename, callStack, modules,
                   moduleStack, chunks, importLog>>
    /\ UNCHANGED <<front, lines>>

\* execStmt, WhileStmt: first test of the condition
ExecWhile ==
    /\ StmtIs("WhileStmt")
    /\ Adopt(WhileTest(kont, Cur))
    /\ UNCHANGED <<globals, locals, funcs, filename, callStack, modules,
                   moduleStack, chunks, importLog>>
    /\ UNCHANGED <<front, lines>>

\* execStmt, WhileStmt: the body's Run has returned
WhileNext ==
    /\ Returned("While")
    /\ IF res.sig = "BreakSignal"
       THEN /\ kont' = Pop(kont)
            /\ res' = Nil
            /\ heap' = heap
       ELSE IF res.sig \in {"nil", "ContinueSignal"}
       THEN Adopt(WhileTest(Pop(kont), Top.stmt))
       ELSE /\ kont' = Pop(kont)
            /\ res' = res
            /\ heap' = heap
    /\ UNCHANGED <<globals, locals, funcs, filename, callStack, modules,
                   moduleStack, chunks, importLog>>
    /\ UNCHANGED <<front, lines>>

\* The activation of a ForEach loop.  Over an array, `range
\* iterV.Arr.Elems` evaluates the slice once: the loop keeps the backing
\* array `buf` and the length `n` of that moment, and reads element idx from
\* the backing array when iteration idx starts.  Over a map it keeps the
\* sorted key list.  `done` counts the iterations started; `entry` and
\* `entryKeys` record the elements of the array and the key set of the map
\* at entry (observation only).
ForEachFrame(stmt, over, buf, n, keys, entry, entryKeys) ==
    [k |-> "ForEach", stmt |-> stmt, over |-> over, buf |-> buf, n |-> n,
     keys |-> keys, done |-> 0, entry |-> entry, entryKeys |-> entryKeys]

\* the value the range clause yields for position idx (zero-based)
RangeValue(h, fr, idx) ==
    IF fr.over = "array" THEN h.bufs[fr.buf][idx + 1]
    ELSE StringValue(fr.keys[idx + 1])

\* the head of the range loop: start iteration fr.done, or leave the loop
ForEachStep(k, h, fr) ==
    IF fr.done >= fr.n
    THEN [kont |-> k, res |-> Nil, heap |-> h, globals |-> globals,
          locals |-> locals]
    ELSE LET e1 == setVar(Me, fr.stmt.Var, RangeValue(h, fr, fr.done))
             I1 == [Me EXCEPT !.globals = e1.globals, !.locals = e1.locals]
             e2 == IF fr.stmt.IndexVar # ""
                   THEN setVar(I1, fr.stmt.IndexVar, NumberValue(fr.done))
                   ELSE e1
         IN [kont |-> k \o <<[fr EXCEPT !.done = @ + 1],
                              RunFrame(fr.stmt.Body)>>,
             res |-> NoRes, heap |-> h, globals |-> e2.globals,
             locals |-> e2.locals]

\* the machine takes up the outcome s of a range-loop head
AdoptEnv(s) ==
    /\ kont' = s.kont
    /\ res' = s.res
    /\ heap' = s.heap
    /\ globals' = s.globals
    /\ locals' = s.locals

\* a statement that fails with e after leaving heap h
failed(k, h, e) ==
    [kont |-> StmtDone(k, e).kont, res |-> StmtDone(k, e).res, heap |-> h,
     globals |-> globals, locals |-> locals]

\* the activation execForEach sets up for the value v of the iterable
forEachOver(stmt, h, v) ==
    IF v.Kind = "ValArray"
    THEN ForEachFrame(stmt, "array", h.arrs[v.Arr].buf, h.arrs[v.Arr].len,
                      <<>>, Elems(h, v.Arr), {})
    ELSE ForEachFrame(stmt, "map", 0, Cardinality(DOMAIN h.maps[v.Map]),
                      SortStrings(DOMAIN h.maps[v.Map]), <<>>,
                      DOMAIN h.maps[v.Map])

\* execForEach for the result r of evaluating the iterable
forEachEnter(k, stmt, r) ==
    IF r.err.sig # "nil" THEN failed(k, r.heap, r.err)
    ELSE IF r.val.Kind \notin {"ValArray", "ValMap"}
    THEN failed(k, r.heap, runtimeErr(Me, "foreach expects an array or map"))
    ELSE ForEachStep(k, r.heap, forEachOver(stmt, r.heap, r.val))

\* execForEach up to the start of the first iteration
ExecForEach ==
    /\ StmtIs("ForEachStmt")
    /\ AdoptEnv(forEachEnter(kont, Cur, evalExpr(Me, Cur.Iterable)))
    /\ UNCHANGED <<funcs, filename, callStack, modules, moduleStack, chunks,
                   importLog>>
    /\ UNCHANGED <<front, lines>>

\* execForEach: the body's Run has returned
ForEachNext ==
    /\ Returned("ForEach")
    /\ IF res.sig = "BreakSignal"
       THEN /\ kont' = Pop(kont)
            /\ res' = Nil
            /\ UNCHANGED <<globals, locals, heap>>
       ELSE IF res.sig \in {"nil", "ContinueSignal"}
       THEN AdoptEnv(ForEachStep(Pop(kont), heap, Top))
       ELSE /\ kont' = Pop(kont)
            /\ res' = res
            /\ UNCHANGED <<globals, locals, heap>>
    /\ UNCHANGED <<funcs, filename, callStack, modules, moduleStack, chunks,
                   importLog>>
    /\ UNCHANGED <<front, lines>>

\* a step that never counts down
DefaultStepUp(startN, endN) == 1

\* execFor: the step when the statement has none
DefaultStep(startN, endN) == IF startN > endN THEN 0 - 1 ELSE 1

\* execFor up to the first assignment of the loop variable: rs holds the
\* values of Start and End, st the value of Step (when there is one)
forEnter(I, stmt, rs, st) ==
    IF rs.err.sig # "nil" THEN [err |-> rs.err, heap |-> rs.heap, startN |-> 0,
                               endN |-> 0, step |-> 0]
    ELSE IF rs.vals[1].Kind # "ValNumber" \/ rs.vals[2].Kind # "ValNumber"
    THEN [err |-> runtimeErr(I, "For loop start/end must be numbers"),
          heap |-> rs.heap, startN |-> 0, endN |-> 0, step |-> 0]
    ELSE IF stmt.Step.Node = "nil"
    THEN [err |-> Nil, heap |-> rs.heap, startN |-> rs.vals[1].Number,
          endN |-> rs.vals[2].Number,
          step |-> DefaultStep(rs.vals[1].Number, rs.vals[2].Number)]
    ELSE IF st.err.sig # "nil"
    THEN [err |-> st.err, heap |-> st.heap, startN |-> 0, endN |-> 0, step |-> 0]
    ELSE IF st.val.Kind # "ValNumber" \/ st.val.Number = 0
    THEN [err |-> runtimeErr(I, "For loop step must be a non-zero number"),
          heap |-> st.heap, startN |-> 0, endN |-> 0, step |-> 0]
    ELSE [err |-> Nil, heap |-> st.heap, startN |-> rs.vals[1].Number,
          endN |-> rs.vals[2].Number, step |-> st.val.Number]

\* The activation of a For loop: the end and the step fixed at entry, `cur`
\* the value of the loop variable read at the head of the iteration under
\* way.  `startN` and `count`, the number of iterations started, are kept
\* for observation only.
ForFrame(stmt, f) ==
    [k |-> "For", stmt |-> stmt, endN |-> f.endN, step |-> f.step, cur |-> 0,
     startN |-> f.startN, count |-> 0]

\* the head of the `for { ... }` loop with the environment g, l: fail, leave
\* the loop, or run the body
forHead(k, fr, g, l) ==
    LET curV == (IF l # <<>> THEN l[Len(l)] ELSE g)[fr.stmt.Var]
    IN IF curV.Kind # "ValNumber"
       THEN [kont |-> k,
             res |-> runtimeErr(Me, "For loop variable must remain numeric")]
       ELSE IF \/ fr.step > 0 /\ curV.Number > fr.endN
               \/ fr.step < 0 /\ curV.Number < fr.endN
       THEN [kont |-> k, res |-> Nil]
       ELSE [kont |-> k \o <<[fr EXCEPT !.cur = curV.Number, !.count = @ + 1],
                              RunFrame(fr.stmt.Body)>>,
             res |-> NoRes]

\* the values execFor computes before the loop
ForEntry ==
    forEnter(Me, Cur, evalList(Me, <<Cur.Start, Cur.End>>),
             IF Cur.Step.Node = "nil" THEN Ok(NullValue, heap)
             ELSE evalExpr(WithHeap(Me, evalList(Me, <<Cur.Start, Cur.End>>).heap),
                           Cur.Step))

forStart(stmt, f) ==
    IF f.err.sig # "nil"
    THEN [kont |-> kont, res |-> f.err, globals |-> globals, locals |-> locals]
    ELSE LET env == setVar(Me, stmt.Var, NumberValue(f.startN))
             h == forHead(kont, ForFrame(stmt, f), env.globals, env.locals)
         IN [kont |-> h.kont, res |-> h.res, globals |-> env.globals,
             locals |-> env.locals]

\* execFor up to the start of the first iteration
ExecFor ==
    /\ StmtIs("ForStmt")
    /\ heap' = ForEntry.heap
    /\ LET s == forStart(Cur, ForEntry)
       IN /\ kont' = s.kont
          /\ res' = s.res
          /\ globals' = s.globals
          /\ locals' = s.locals
    /\ UNCHANGED <<funcs, filename, callStack, modules, moduleStack, chunks,
                   importLog>>
    /\ UNCHANGED <<front, lines>>

\* execFor: the body's Run has returned
ForNext ==
    /\ Returned("For")
    /\ IF res.sig = "BreakSignal"
       THEN /\ kont' = Pop(kont)
            /\ res' = Nil
            /\ UNCHANGED <<globals, locals>>
       ELSE IF res.sig \in {"nil", "ContinueSignal"}
       THEN LET env == setVar(Me, Top.stmt.Var, NumberValue(Top.cur + Top.step))
                h == forHead(Pop(kont), Top, env.globals, env.locals)
            IN /\ kont' = h.kont
               /\ res' = h.res
               /\ globals' = env.globals
               /\ locals' = env.locals
       ELSE /\ kont' = Pop(kont)
            /\ res' = res
            /\ UNCHANGED <<globals, locals>>
    /\ UNCHANGED <<funcs, filename, callStack, modules, moduleStack, heap,
                   chunks, importLog>>
    /\ UNCHANGED <<front, lines>>

\* a reopen that keeps the reader of the handle
dropHandleKeepsReader(h, handle) ==
    LET h1 == IF handle \in DOMAIN h.files THEN osClose(h, h.files[handle]) ELSE h
    IN [h1 EXCEPT !.files = Without(@, handle)]

\* a close that keeps the table entry of the handle
dropHandleKeepsFile(h, handle) ==
    LET h1 == IF handle \in DOMAIN h.files THEN osClose(h, h.files[handle]) ELSE h
    IN [h1 EXCEPT !.readers = Without(@, handle)]

\* f.Close(); delete(i.files, handle); delete(i.readers, handle)
dropHandle(h, handle) ==
    LET h1 == IF handle \in DOMAIN h.files THEN osClose(h, h.files[handle]) ELSE h
    IN [h1 EXCEPT !.files = Without(@, handle), !.readers = Without(@, handle)]

\* an open that leaves the handle alone until the new file is there
closedFirstNever(h, handle) == h

\* "if already open, close first": the handle is dropped once both operands
\* are strings, before the mode is looked at
closedFirst(h, handle) == dropHandle(h, handle)

\* execOpen; rs holds the values of Path and Mode
execOpen(I, stmt, rs) ==
    LET J == WithHeap(I, rs.heap)
        h2 == closedFirst(rs.heap, stmt.Handle)
        mode == normMode(rs.vals[2].Str)
        o == osOpen(h2, rs.vals[1].Str, mode)
    IN IF stmt.Handle <= 0
       THEN Fail(I.heap, runtimeErr(I, "open handle must be a positive integer"))
       ELSE IF rs.err.sig # "nil" THEN Fail(rs.heap, rs.err)
       ELSE IF rs.vals[1].Kind # "ValString"
       THEN Fail(rs.heap, runtimeErr(J, "open path must be a string"))
       ELSE IF rs.vals[2].Kind # "ValString"
       THEN Fail(rs.heap, runtimeErr(J, "open mode must be a string"))
       ELSE IF mode \notin {<<"w">>, <<"a">>, <<"r">>}
       THEN Fail(h2, runtimeErr(WithHeap(I, h2), "open mode must be r, w, or a"))
       ELSE IF ~o.ok THEN Fail(h2, runtimeErr(WithHeap(I, h2), "open failed"))
       ELSE Ok(NullValue, [o.heap EXCEPT !.files = Bind(@, stmt.Handle, o.fd)])

\* execStmt, OpenStmt
ExecOpen ==
    /\ StmtIs("OpenStmt")
    /\ LET r == execOpen(Me, Cur, evalList(Me, <<Cur.Path, Cur.Mode>>))
       IN /\ heap' = r.heap
          /\ kont' = StmtDone(kont, r.err).kont
          /\ res' = StmtDone(kont, r.err).res
    /\ UNCHANGED <<globals, locals, funcs, filename, callStack, modules,
                   moduleStack, chunks, importLog>>
    /\ UNCHANGED <<front, lines>>

\* execClose
execClose(I, stmt) ==
    IF stmt.Handle \notin DOMAIN I.heap.files
    THEN Fail(I.heap, runtimeErr(I, "close failed: handle is not open"))
    ELSE Ok(NullValue, dropHandle(I.heap, stmt.Handle))

\* execStmt, CloseStmt
ExecClose ==
    /\ StmtIs("CloseStmt")
    /\ LET r == execClose(Me, Cur)
       IN /\ heap' = r.heap
          /\ kont' = StmtDone(kont, r.err).kont
          /\ res' = StmtDone(kont, r.err).res
    /\ UNCHANGED <<globals, locals, funcs, filename, callStack, modules,
                   moduleStack, chunks, importLog>>
    /\ UNCHANGED <<front, lines>>

\* execPrintHandle; v holds the value of stmt.Value (evaluated only when
\* the handle is open)
execPrintHandle(I, stmt, v) ==
    LET w == osWrite(v.heap, v.heap.files[stmt.Handle],
                     ValueToString(v.heap, v.val))
    IN IF stmt.Handle \notin DOMAIN I.heap.files
       THEN Fail(I.heap, runtimeErr(I, "print failed: handle is not open"))
       ELSE IF v.err.sig # "nil" THEN Fail(v.heap, v.err)
       ELSE IF ToStringEndless(v.heap, v.val) THEN Fail(v.heap, StackOverflow)
       ELSE IF ~w.ok
       THEN Fail(v.heap, runtimeErr(WithHeap(I, v.heap), "print failed"))
       ELSE Ok(NullValue, w.heap)

\* execStmt, PrintHandleStmt
ExecPrintHandle ==
    /\ StmtIs("PrintHandleStmt")
    /\ LET r == execPrintHandle(Me, Cur, evalExpr(Me, Cur.Value))
       IN /\ heap' = r.heap
          /\ kont' = StmtDone(kont, r.err).kont
          /\ res' = StmtDone(kont, r.err).res
    /\ UNCHANGED <<globals, locals, funcs, filename, callStack, modules,
                   moduleStack, chunks, importLog>>
    /\ UNCHANGED <<front, lines>>

\* the expression a statement evaluates first
CallSite == CASE Cur.Node = "AssignStmt" -> Cur.Value
              [] Cur.Node = "ExprStmt" -> Cur.Expr
              [] Cur.Node = "ReturnStmt" -> Cur.Value
              [] OTHER -> NoExpr

\* the frame after `i.currentEnv()[name] = argVals[idx]` for every parameter
ParamFrame(params, argVals) ==
    [n \in {params[k] : k \in 1..Len(params)} |->
        LET last == CHOOSE k \in 1..Len(params) :
                       /\ params[k] = n
                       /\ \A j \in (k + 1)..Len(params) : params[j] # n
        IN argVals[last]]

\* evalCall / evalUserCall up to the start of the body
ExecCall ==
    /\ AtStmt
    /\ IsUserCall(CallSite)
    /\ Cur.Node = "ReturnStmt" => inFunction(Me)
    /\ LET fn == funcs[CallSite.Callee]
           rs == evalList(Me, CallSite.Args)
       IN IF Len(CallSite.Args) # Len(fn.Params)
          THEN LET e == runtimeErr(Me, "Function expects a different number of args")
               IN /\ kont' = StmtDone(kont, e).kont
                  /\ res' = StmtDone(kont, e).res
                  /\ UNCHANGED <<heap, callStack, locals>>
          ELSE IF rs.err.sig # "nil"
          THEN /\ kont' = StmtDone(kont, rs.err).kont
               /\ res' = StmtDone(kont, rs.err).res
               /\ heap' = rs.heap
               /\ UNCHANGED <<callStack, locals>>
          ELSE /\ callStack' = Append(callStack, fn.Name)
               /\ locals' = Append(locals, ParamFrame(fn.Params, rs.vals))
               /\ heap' = rs.heap
               /\ kont' = kont \o <<[k |-> "Call", fn |-> fn], RunFrame(fn.Body)>>
               /\ res' = NoRes
    /\ UNCHANGED <<globals, funcs, filename, modules, moduleStack, chunks,
                   importLog>>
    /\ UNCHANGED <<front, lines>>

\* pops that run only when the body returned a value
unwoundOnReturnOnly(I, e) ==
    IF e.sig = "ReturnSignal"
    THEN [I EXCEPT !.locals = Pop(@), !.callStack = Pop(@)]
    ELSE I

\* the deferred popLocals and call-stack pop, run whatever the outcome e of
\* the body is
unwound(I, e) == [I EXCEPT !.locals = Pop(@), !.callStack = Pop(@)]

\* evalUserCall after Run(fn.Body), its deferred pops, and the rest of the
\* statement that made the call
CallReturn ==
    /\ Returned("Call")
    /\ LET fn == Top.fn
           k1 == Pop(kont)
           site == k1[Len(k1)].stmts[k1[Len(k1)].pc]
           \* runtimeErr runs before the deferred pops
           err == IF res.sig = "ReturnSignal" THEN Nil
                  ELSE IF res.sig # "nil" THEN res
                  ELSE runtimeErr(Me, "Function ended without return")
           val == IF res.sig = "ReturnSignal" THEN res.Val ELSE NullValue
           I2 == unwound(Me, res)
           env == IF err.sig = "nil" /\ site.Node = "AssignStmt"
                  THEN setVar(I2, site.Name, val)
                  ELSE [globals |-> I2.globals, locals |-> I2.locals]
           out == IF err.sig = "nil" /\ site.Node = "ReturnStmt"
                  THEN ReturnSignal(val) ELSE err
       IN /\ callStack' = I2.callStack
          /\ globals' = env.globals
          /\ locals' = env.locals
          /\ kont' = StmtDone(k1, out).kont
          /\ res' = StmtDone(k1, out).res
    /\ UNCHANGED <<funcs, filename, modules, moduleStack, heap, chunks, importLog>>
    /\ UNCHANGED <<front, lines>>

\* execImport up to the start of the module's program
ExecImport ==
    /\ StmtIs("ImportStmt")
    /\ LET rp == resolveImportPath(Cur.Path, filename)
           p == rp.resolved
           abs == IF IsAbs(p) THEN p ELSE Join(Cwd, p)
           e == IF ModState(modules, p) = "modLoaded" THEN Nil
                ELSE IF ModState(modules, p) = "modLoading"
                THEN runtimeErrP(Me, "Circular import detected:",
                                 circularImportMessage(moduleStack, p))
                ELSE IF ~fileExists(p)
                THEN runtimeErrP(Me, "import failed: file not found", rp.tried)
                ELSE runtimeErrP(Me, "import failed for", <<p>>)
           outcome == IF ModState(modules, p) = "modLoaded" THEN "cached"
                      ELSE IF ModState(modules, p) = "modLoading" THEN "cycle"
                      ELSE IF ~fileExists(p) THEN "notfound"
                      ELSE "unreadable"
       IN IF ModState(modules, p) = "modNone" /\ abs \in DOMAIN Files
          THEN /\ modules' = Bind(modules, p, "modLoading")
               /\ moduleStack' = Append(moduleStack, p)
               /\ filename' = p
               /\ lines' = splitLinesPreserve(p, Files[abs])
               /\ importLog' = Append(importLog, <<p, "run">>)
               /\ kont' = kont \o <<[k |-> "Import", resolved |-> p,
                                     prevFile |-> filename,
                                     prevLines |-> lines],
                                    RunFrame(Files[abs])>>
               /\ res' = NoRes
          ELSE /\ kont' = StmtDone(kont, e).kont
               /\ res' = StmtDone(kont, e).res
               /\ importLog' = Append(importLog, <<p, outcome>>)
               /\ UNCHANGED <<modules, moduleStack, filename, lines>>
    /\ UNCHANGED <<globals, locals, funcs, callStack, heap, chunks>>
    /\ UNCHANGED front

\* a pop that is skipped when the module failed
moduleStackAfterSuccessOnly(st, e) == IF e.sig = "nil" THEN Pop(st) ELSE st

\* i.moduleStack = i.moduleStack[:len(i.moduleStack)-1], whatever the
\* outcome e of the module's program
moduleStackAfter(st, e) == Pop(st)

\* a restore that puts back the file name only
restoredFileOnly(fr) == [filename |-> fr.prevFile, lines |-> lines]

\* i.filename = prevFile; i.lines = prevLines
restored(fr) == [filename |-> fr.prevFile, lines |-> fr.prevLines]

\* execImport after Run(prog)
ImportReturn ==
    /\ Returned("Import")
    /\ filename' = restored(Top).filename
    /\ lines' = restored(Top).lines
    /\ moduleStack' = moduleStackAfter(moduleStack, res)
    /\ modules' = Bind(modules, Top.resolved, moduleStateAfter(res))
    /\ kont' = StmtDone(Pop(kont), res).kont
    /\ res' = StmtDone(Pop(kont), res).res
    /\ importLog' = Append(importLog, <<Top.resolved,
                                        IF res.sig # "nil" THEN "failed"
                                        ELSE "loaded">>)
    /\ UNCHANGED <<globals, locals, funcs, callStack, heap, chunks>>
    /\ UNCHANGED front

(***************************************************************************)
(* Modules: the chunks a session is given, in any order and any number of  *)
(* times up to MaxChunks.                                                  *)
(***************************************************************************)
\* function g()          (the module is imported from inside a function)
\*   import "m"
\*   return 0
\* end
\* r = g()
ChunkImportInFunction ==
    <<FunctionDecl("g", <<>>, <<Import(Rel("m")), Return(Num(0))>>),
      Assign("r", Call("g", <<>>))>>

ModulePrograms ==
    << <<Import(Rel("m"))>>,
       <<Assign("x", Num(2))>>,
       <<Import(Rel("a"))>>,
       <<Import(Rel("s"))>>,
       <<Import(Rel("bad"))>>,
       <<Assign("u", Num(5))>>,
       <<Import(Rel("nofile"))>>,
       ChunkImportInFunction >>

NextModules ==
    \/ StartRun(ModulePrograms)
    \/ RunReturn
    \/ ExecAssign
    \/ ExecFunctionDecl
    \/ ExecReturn
    \/ ExecCall
    \/ CallReturn
    \/ ExecImport
    \/ ImportReturn

SpecModules == Init /\ [][NextModules]_vars

PathM == InCwd("m")
PathA == InCwd("a")
PathB == InCwd("b")
PathBad == InCwd("bad")

\* the path the import statement about to execute resolves to
Target == resolveImportPath(Cur.Path, filename).resolved

\* positions of the import log that are about path p
LogOf(p) == {k \in 1..Len(importLog) : importLog[k][1] = p}

LoggedPaths == {importLog[k][1] : k \in 1..Len(importLog)}

\* an import of a Loaded path returns nil, so Run goes on with the next
\* statement, and nothing of the interpreter changes
CachedImportIsNoOp ==
    (StmtIs("ImportStmt") /\ ModState(modules, Target) = "modLoaded")
    => /\ res'.sig = "running"
       /\ kont' = [kont EXCEPT ![Len(kont)].pc = @ + 1]
       /\ UNCHANGED <<globals, locals, funcs, modules, moduleStack, heap,
                      filename, callStack>>

\* after a path was loaded, every later import of it is answered from the
\* registry: its body is never started again
LoadedRunsNoMore ==
    \A p \in LoggedPaths : \A j, k \in LogOf(p) :
        (j < k /\ importLog[j][2] = "loaded") => importLog[k][2] = "cached"

\* C1: once a module path is Loaded, a later import resolving to it succeeds
\* without executing the file again and leaves globals, the function table
\* and the registry unchanged; the body of a loaded module ran exactly once.
C1_LoadOnce == [][CachedImportIsNoOp]_vars /\ []LoadedRunsNoMore

\* m.bpl was loaded, x was reassigned, and a second import of m.bpl was
\* answered from the registry: x still has the reassigned value
C1_Witness ==
    /\ kont = <<>>
    /\ res.sig = "nil"
    /\ \E j, k \in LogOf(PathM) :
          j < k /\ importLog[j][2] = "loaded" /\ importLog[k][2] = "cached"
    /\ "x" \in DOMAIN globals
    /\ globals["x"] = NumberValue(2)

\* an import of a path that is being loaded fails with the cycle error; its
\* path lines are the import stack from the outermost module on, then the
\* target; no activation is started and the registry is untouched
CycleIsReported ==
    (StmtIs("ImportStmt") /\ ModState(modules, Target) = "modLoading")
    => /\ res'.sig = "RuntimeError"
       /\ res'.Msg = "Circular import detected:"
       /\ Len(res'.Paths) = Len(moduleStack) + 1
       /\ \A k \in 1..Len(moduleStack) : res'.Paths[k] = moduleStack[k]
       /\ res'.Paths[Len(moduleStack) + 1] = Target
       /\ kont' = Pop(kont)
       /\ UNCHANGED <<modules, moduleStack, filename, globals, funcs>>

\* C2: an import whose resolved path is in state Loading fails with a runtime
\* error listing the import stack, outermost first, then the target path, and
\* the module's body is not started a second time.
C2_CycleError == [][CycleIsReported]_vars

\* a.bpl imported b.bpl, which imported a.bpl: the error reached the top
C2_Witness ==
    /\ kont = <<>>
    /\ res.sig = "RuntimeError"
    /\ res.Msg = "Circular import detected:"
    /\ res.Paths = <<PathA, PathB, PathA>>

\* the last entry of the log that starts or ends a run of p's body
LastRunEntry(p) ==
    LET S == {k \in LogOf(p) : importLog[k][2] \in {"run", "failed", "loaded"}}
    IN IF S = {} THEN "none"
       ELSE importLog[CHOOSE k \in S : \A j \in S : j <= k][2]

\* C3: a module whose program ended with an error is back in the unvisited
\* state, so a later import of it executes the file again; a module whose
\* program succeeded is Loaded.
C3_ResetOnError ==
    /\ \A p \in LoggedPaths :
          ModState(modules, p) =
             CASE LastRunEntry(p) = "run" -> "modLoading"
               [] LastRunEntry(p) = "loaded" -> "modLoaded"
               [] OTHER -> "modNone"
    /\ \A p \in LoggedPaths : \A j \in LogOf(p) :
          importLog[j][2] = "failed" =>
             \A k \in LogOf(p) :
                (k > j /\ \A m \in LogOf(p) : ~(j < m /\ m < k))
                => importLog[k][2] = "run"

\* bad.bpl failed, then was imported again, executed again and got Loaded
C3_Witness ==
    /\ kont = <<>>
    /\ ModState(modules, PathBad) = "modLoaded"
    /\ \E j, k \in LogOf(PathBad) :
          j < k /\ importLog[j][2] = "failed" /\ importLog[k][2] = "loaded"

\* the names the top-level statements of a program assign
AssignedNames(prog) ==
    {prog[k].Name : k \in {j \in 1..Len(prog) : prog[j].Node = "AssignStmt"}}

\* C4: the top-level assignments of a loaded module are bound in globals,
\* wherever its import statement was executed (also inside a function body).
C4_ModuleBindsGlobals ==
    \A p \in DOMAIN modules :
        (modules[p] = "modLoaded" /\ p \in DOMAIN Files)
        => AssignedNames(Files[p]) \subseteq DOMAIN globals

(***************************************************************************)
(* Control flow and frames: the chunks of a session.                       *)
(***************************************************************************)
\* break
ChunkBreak == <<Break>>

\* return 1
ChunkReturn == <<Return(Num(1))>>

\* function f()
\*   break
\*   return 0
\* end
\* i = 0
\* while i < 2
\*   i = i + 1
\*   r = f()
\* end
\* after = i
ChunkBreakInCallee ==
    <<FunctionDecl("f", <<>>, <<Break, Return(Num(0))>>),
      Assign("i", Num(0)),
      While(Binary(Ident("i"), "<", Num(2)),
            <<Assign("i", Binary(Ident("i"), "+", Num(1))),
              Assign("r", Call("f", <<>>))>>),
      Assign("after", Ident("i"))>>

\* i = 0
\* while i < 3
\*   i = i + 1
\*   if i == 1
\*     continue
\*   end
\*   if i == 2
\*     break
\*   end
\* end
ChunkLoop ==
    <<Assign("i", Num(0)),
      While(Binary(Ident("i"), "<", Num(3)),
            <<Assign("i", Binary(Ident("i"), "+", Num(1))),
              If(Binary(Ident("i"), "==", Num(1)), <<Continue>>, <<>>),
              If(Binary(Ident("i"), "==", Num(2)), <<Break>>, <<>>)>>)>>

\* x = 1
\* function h(a)
\*   x = 5
\*   y = a
\*   return x
\* end
\* r = h(2)
ChunkAssignInFrame ==
    <<Assign("x", Num(1)),
      FunctionDecl("h", <<"a">>,
                   <<Assign("x", Num(5)), Assign("y", Ident("a")),
                     Return(Ident("x"))>>),
      Assign("r", Call("h", <<Num(2)>>))>>

\* g0 = 3
\* function inner()
\*   v = g0
\*   w = loc
\*   return w
\* end
\* function outer()
\*   loc = 7
\*   q = inner()
\*   return q
\* end
\* r = outer()
ChunkNestedFrames ==
    <<Assign("g0", Num(3)),
      FunctionDecl("inner", <<>>,
                   <<Assign("v", Ident("g0")), Assign("w", Ident("loc")),
                     Return(Ident("w"))>>),
      FunctionDecl("outer", <<>>,
                   <<Assign("loc", Num(7)), Assign("q", Call("inner", <<>>)),
                     Return(Ident("q"))>>),
      Assign("r", Call("outer", <<>>))>>

ControlPrograms ==
    <<ChunkBreak, ChunkReturn, ChunkBreakInCallee, ChunkLoop,
      ChunkAssignInFrame, ChunkNestedFrames>>

NextControl ==
    \/ StartRun(ControlPrograms)
    \/ RunReturn
    \/ RunResume
    \/ ExecAssign
    \/ ExecFunctionDecl
    \/ ExecReturn
    \/ ExecBreak
    \/ ExecContinue
    \/ ExecIf
    \/ ExecWhile
    \/ WhileNext
    \/ ExecCall
    \/ CallReturn

SpecControl == Init /\ [][NextControl]_vars


\* C5: a Run started with no function frame active hands its caller nil or a
\* RuntimeError, never a ReturnSignal, BreakSignal or ContinueSignal.
C5_NoSignalSurfaces ==
    (kont = <<>> /\ locals = <<>>) => res.sig \in {"nil", "RuntimeError"}

\* the activations above the innermost user call or import (all of them at
\* the top level): the body that is executing now
BodyFrames ==
    LET B == {k \in 1..Len(kont) : kont[k].k \in {"Call", "Import"}}
        from == IF B = {} THEN 1 ELSE (CHOOSE k \in B : \A j \in B : j <= k) + 1
    IN from..Len(kont)

\* a loop of the executing body encloses the current statement
InLoopOfBody == \E k \in BodyFrames : kont[k].k \in {"While", "ForEach"}

BreakOutsideLoopFails ==
    (AtStmt /\ Cur.Node \in {"BreakStmt", "ContinueStmt"} /\ ~InLoopOfBody)
    => res'.sig = "RuntimeError"

\* C6: break or continue executed with no enclosing loop in the executing
\* function body (or top level) is a runtime error at that statement; it
\* never reaches a loop of the caller.
C6_BreakOutsideLoopIsError == [][BreakOutsideLoopFails]_vars

\* a step that leaves a function frame active before and after it keeps
\* globals, and no step changes a frame below the top one
FramesAreIsolated ==
    /\ (Len(locals) > 0 /\ Len(locals') > 0) => globals' = globals
    /\ \A k \in 1..Len(locals) :
          (k < Len(locals) /\ k <= Len(locals')) => locals'[k] = locals[k]

\* Assign of a call-free expression: binds in the top frame, or in globals
\* when no frame is active
AssignBindsTopFrame ==
    (StmtIs("AssignStmt") /\ ~IsUserCall(Cur.Value) /\ res'.sig = "running")
    => IF Len(locals) > 0
       THEN /\ Cur.Name \in DOMAIN locals'[Len(locals)]
            /\ \A n \in DOMAIN locals'[Len(locals)] :
                  n # Cur.Name => /\ n \in DOMAIN locals[Len(locals)]
                                  /\ locals'[Len(locals)][n] = locals[Len(locals)][n]
            /\ globals' = globals
       ELSE /\ Cur.Name \in DOMAIN globals'
            /\ locals' = locals

\* Assign of a plain identifier: the value read is the top frame's binding,
\* else the global one; a name bound only in a caller's frame is undefined
ReadResolvesTopThenGlobals ==
    (StmtIs("AssignStmt") /\ Cur.Value.Node = "Identifier")
    => LET n == Cur.Value.Name
           inTop == Len(locals) > 0 /\ n \in DOMAIN locals[Len(locals)]
           env == IF Len(locals) > 0 THEN locals'[Len(locals)] ELSE globals'
       IN IF inTop THEN res'.sig = "running"
                        /\ env[Cur.Name] = locals[Len(locals)][n]
          ELSE IF n \in DOMAIN globals
               THEN res'.sig = "running" /\ env[Cur.Name] = globals[n]
          ELSE res'.sig = "RuntimeError" /\ res'.Msg = "Undefined variable"

\* C7: with a frame active, Assign binds in the top frame only and changes
\* neither globals nor another frame; a read resolves in the top frame, then
\* in globals, never in a caller's frame; with no frame active Assign binds
\* in globals.
C7_FrameDiscipline ==
    [][FramesAreIsolated /\ AssignBindsTopFrame /\ ReadResolvesTopThenGlobals]_vars

\* h assigned x = 5 in its frame and returned it: the global x is still 1,
\* y is not a global, and r got the frame's x
C7_Witness ==
    /\ kont = <<>>
    /\ {"x", "r"} \subseteq DOMAIN globals
    /\ globals["x"] = NumberValue(1)
    /\ globals["r"] = NumberValue(5)
    /\ "y" \notin DOMAIN globals


(***************************************************************************)
(* Arrays, maps and ForEach: the chunks of a session.                      *)
(***************************************************************************)
\* a = [1, 2]
\* b = a
\* b[0] = 9
\* x = a[0]
ChunkAliasIndex ==
    <<Assign("a", ArrayLit(<<Num(1), Num(2)>>)),
      Assign("b", Ident("a")),
      IndexAssign("b", Num(0), Num(9)),
      Assign("x", Index(Ident("a"), Num(0)))>>

\* function id(p)
\*   push(p, 3)
\*   return p
\* end
\* a = [1, 2]
\* c = id(a)
\* push(c, 4)
\* n = len(a)
ChunkAliasCall ==
    <<FunctionDecl("id", <<"p">>,
                   <<ExprStmt(Call("push", <<Ident("p"), Num(3)>>)),
                     Return(Ident("p"))>>),
      Assign("a", ArrayLit(<<Num(1), Num(2)>>)),
      Assign("c", Call("id", <<Ident("a")>>)),
      ExprStmt(Call("push", <<Ident("c"), Num(4)>>)),
      Assign("n", Call("len", <<Ident("a")>>))>>

\* a = [1, 2, 3]
\* b = a
\* r = remove(b, 0)
\* insert(b, 1, 7)
\* p = pop(b)
\* n = len(a)
ChunkAliasBuiltins ==
    <<Assign("a", ArrayLit(<<Num(1), Num(2), Num(3)>>)),
      Assign("b", Ident("a")),
      Assign("r", Call("remove", <<Ident("b"), Num(0)>>)),
      ExprStmt(Call("insert", <<Ident("b"), Num(1), Num(7)>>)),
      Assign("p", Call("pop", <<Ident("b")>>)),
      Assign("n", Call("len", <<Ident("a")>>))>>

\* a = [1, 2, 3]
\* seen = []
\* for each v, i in a
\*   push(seen, v)
\*   a[2] = 9
\* end
ChunkEachIndexAssign ==
    <<Assign("a", ArrayLit(<<Num(1), Num(2), Num(3)>>)),
      Assign("seen", ArrayLit(<<>>)),
      ForEach("v", "i", Ident("a"),
              <<ExprStmt(Call("push", <<Ident("seen"), Ident("v")>>)),
                IndexAssign("a", Num(2), Num(9))>>)>>

\* a = [1, 2, 3]
\* for each v in a
\*   if len(a) == 3
\*     r = remove(a, 0)
\*   else
\*     push(a, 4)
\*   end
\* end
ChunkEachResize ==
    <<Assign("a", ArrayLit(<<Num(1), Num(2), Num(3)>>)),
      ForEach("v", "", Ident("a"),
              <<If(Binary(Call("len", <<Ident("a")>>), "==", Num(3)),
                   <<Assign("r", Call("remove", <<Ident("a"), Num(0)>>))>>,
                   <<ExprStmt(Call("push", <<Ident("a"), Num(4)>>))>>)>>)>>

\* a = [1, 2]
\* for each v in a
\*   push(a, 5)
\*   t = pop(a)
\* end
ChunkEachPushPop ==
    <<Assign("a", ArrayLit(<<Num(1), Num(2)>>)),
      ForEach("v", "", Ident("a"),
              <<ExprStmt(Call("push", <<Ident("a"), Num(5)>>)),
                Assign("t", Call("pop", <<Ident("a")>>))>>)>>

\* m = {"b": 1, "ab": 2, "a": 3}
\* for each k, i in m
\*   m["c"] = 4
\*   d = del(m, "b")
\*   h = has(m, "b")
\* end
ChunkEachMap ==
    <<Assign("m", MapLit(<<Entry(<<"b">>, Num(1)), Entry(<<"a", "b">>, Num(2)),
                           Entry(<<"a">>, Num(3))>>)),
      ForEach("k", "i", Ident("m"),
              <<IndexAssign("m", Str(<<"c">>), Num(4)),
                Assign("d", Call("del", <<Ident("m"), Str(<<"b">>)>>)),
                Assign("h", Call("has", <<Ident("m"), Str(<<"b">>)>>))>>)>>

\* for each v in 1
\* end
ChunkEachNumber == <<ForEach("v", "", Num(1), <<>>)>>

ArrayPrograms ==
    <<ChunkAliasIndex, ChunkAliasCall, ChunkAliasBuiltins,
      ChunkEachIndexAssign, ChunkEachResize, ChunkEachPushPop, ChunkEachMap,
      ChunkEachNumber>>

NextArrays ==
    \/ StartRun(ArrayPrograms)
    \/ RunReturn
    \/ RunResume
    \/ ExecAssign
    \/ ExecExprStmt
    \/ ExecIndexAssign
    \/ ExecFunctionDecl
    \/ ExecReturn
    \/ ExecIf
    \/ ExecForEach
    \/ ForEachNext
    \/ ExecCall
    \/ CallReturn

SpecArrays == Init /\ [][NextArrays]_vars


(***************************************************************************)
(* Arrays are shared by reference.                                         *)
(***************************************************************************)
\* the places that bind a name: <<0, n>> in globals, <<k, n>> in frame k
Holders(g, l, o) ==
    {<<0, n>> : n \in {x \in DOMAIN g : g[x] = ArrayRef(o)}}
    \cup UNION {{<<k, n>> : n \in {x \in DOMAIN l[k] : l[k][x] = ArrayRef(o)}}
                : k \in 1..Len(l)}

Advanced == kont' = [kont EXCEPT ![Len(kont)].pc = @ + 1]

InPlaceNames == {"push", "pop", "insert", "remove"}

\* what the element sequence old becomes by the operation on values vals
Changed(old, op, vals) ==
    CASE op = "store" -> [old EXCEPT ![vals[1].Number + 1] = vals[2]]
      [] op = "push" -> Append(old, vals[2])
      [] op = "pop" -> SubSeq(old, 1, Len(old) - 1)
      [] op = "insert" -> SubSeq(old, 1, vals[2].Number) \o <<vals[3]>>
                            \o SubSeq(old, vals[2].Number + 1, Len(old))
      [] op = "remove" -> SubSeq(old, 1, vals[2].Number)
                            \o SubSeq(old, vals[2].Number + 2, Len(old))

\* after the step every holder of object o, the assigned name apart, still
\* holds o, and o has the changed elements
SeenByAll(o, new, assigned) ==
    /\ Elems(heap', o) = new
    /\ \A loc \in Holders(globals, locals, o) :
          loc[2] # assigned => loc \in Holders(globals', locals', o)

StoreSeen(c, rs) ==
    (c.ok /\ c.val.Kind = "ValArray" /\ Advanced) =>
        /\ rs.vals[1].Number \in 0..(heap.arrs[c.val.Arr].len - 1)
        /\ SeenByAll(c.val.Arr, Changed(Elems(heap, c.val.Arr), "store", rs.vals), "")

IndexStoreSeenByAliases ==
    StmtIs("IndexAssignStmt") =>
        StoreSeen(findVarEnv(Me, Cur.Name), evalList(Me, <<Cur.Index, Cur.Value>>))

InPlaceSeen(op, rs, assigned) ==
    (Advanced /\ rs.vals[1].Kind = "ValArray") =>
        SeenByAll(rs.vals[1].Arr,
                  Changed(Elems(heap, rs.vals[1].Arr), op, rs.vals), assigned)

InPlaceSeenByAliases ==
    (/\ AtStmt
     /\ CallSite.Node = "CallExpr"
     /\ CallSite.Callee \in InPlaceNames \ DOMAIN funcs) =>
        InPlaceSeen(CallSite.Callee, evalList(Me, CallSite.Args),
                    IF Cur.Node = "AssignStmt" THEN Cur.Name ELSE "")

\* `b = a`, a parameter bound to an argument, and a returned value bound
\* by the caller, hold the array the source holds: no array is created
SharedBy(v, g, l, name) ==
    v.Kind = "ValArray" =>
        /\ Len(heap'.arrs) = Len(heap.arrs)
        /\ (IF l # <<>> THEN l[Len(l)] ELSE g)[name] = v

AssignShares ==
    (StmtIs("AssignStmt") /\ Cur.Value.Node = "Identifier" /\ Advanced) =>
        SharedBy(findVarEnv(Me, Cur.Value.Name).val, globals', locals', Cur.Name)

ArgumentShares ==
    (/\ AtStmt
     /\ IsUserCall(CallSite)
     /\ Len(kont') = Len(kont) + 2) =>
        \A k \in 1..Len(CallSite.Args) :
            CallSite.Args[k].Node = "Identifier" =>
                SharedBy(findVarEnv(Me, CallSite.Args[k].Name).val,
                         globals', locals', funcs[CallSite.Callee].Params[k])

ReturnShares ==
    (/\ Returned("Call")
     /\ res.sig = "ReturnSignal"
     /\ kont[Len(kont) - 1].stmts[kont[Len(kont) - 1].pc].Node = "AssignStmt") =>
        SharedBy(res.Val, globals', locals',
                 kont[Len(kont) - 1].stmts[kont[Len(kont) - 1].pc].Name)

\* C8: an array bound to several names (by assignment, by argument passing,
\* by return) is one object: after `a[i] = x` succeeds with 0 <= i < len(a),
\* index i reads x through every name, and push, pop, insert and remove made
\* through one name change the length and the elements every name observes
C8_AliasesObserveChange ==
    [][/\ IndexStoreSeenByAliases
       /\ InPlaceSeenByAliases
       /\ AssignShares
       /\ ArgumentShares
       /\ ReturnShares]_vars

\* ChunkAliasCall has run: `a` and `c`, bound through argument and return,
\* are one array, with the elements pushed through `p` and through `c`
C8_Witness ==
    /\ kont = <<>>
    /\ res.sig = "nil"
    /\ {"a", "c", "n"} \subseteq DOMAIN globals
    /\ globals["c"] = globals["a"]
    /\ globals["n"] = NumberValue(4)
    /\ Elems(heap, globals["a"].Arr)
         = <<NumberValue(1), NumberValue(2), NumberValue(3), NumberValue(4)>>

(***************************************************************************)
(* ForEach.                                                                *)
(***************************************************************************)
\* an iteration of the innermost ForEach has just started
IterationStarts(over) ==
    /\ Len(kont) >= 2
    /\ res.sig = "running"
    /\ Top.k = "Run"
    /\ Top.pc = 1
    /\ kont[Len(kont) - 1].k = "ForEach"
    /\ kont[Len(kont) - 1].over = over

Loop == kont[Len(kont) - 1]

\* C9: ForEach over an array visits the elements the array held at entry,
\* in index order: iteration number d binds the loop variable to the d-th
\* element of that moment, and there are as many iterations as elements
\* then, whatever the body does to the array
C9_ForEachArraySnapshot ==
    IterationStarts("array") =>
        /\ Loop.n = Len(Loop.entry)
        /\ Loop.done <= Len(Loop.entry)
        /\ currentEnv(Me)[Loop.stmt.Var] = Loop.entry[Loop.done]

\* the keys of S below key, in the order of sort.Strings
Below(S, key) == {x \in S : StrLess(x, key)}

StepClause(c) ==
    CASE c = 0 -> NoExpr
      [] c = 1 -> Num(1)
      [] c = 2 -> Num(2)
      [] c = 3 -> Binary(Num(0), "-", Num(1))
      [] c = 4 -> Binary(Num(0), "-", Num(2))

\* for i = s to e [step st]
\*   if i == 1
\*     continue
\*   end
\*   t = i
\* next
ChunkFor(s, e, c) ==
    <<For("i", Num(s), Num(e), StepClause(c),
          <<If(Binary(Ident("i"), "==", Num(1)), <<Continue>>, <<>>),
            Assign("t", Ident("i"))>>)>>

\* for i = 0 to 1 step 0 ... next
ChunkForStepZero == <<For("i", Num(0), Num(1), Num(0), <<>>)>>

\* for i = "a" to 1 ... next
ChunkForStartString == <<For("i", Str(<<"a">>), Num(1), NoExpr, <<>>)>>

\* for i = 0 to 2
\*   i = "x"
\* next
ChunkForVarString ==
    <<For("i", Num(0), Num(2), NoExpr, <<Assign("i", Str(<<"x">>))>>)>>

\* for i = 0 to 2
\*   i = "x"
\*   continue
\* next
ChunkForVarStringContinue ==
    <<For("i", Num(0), Num(2), NoExpr,
          <<Assign("i", Str(<<"x">>)), Continue>>)>>

MaxForBound == 2    \* start and end of the For chunks are 0..MaxForBound

ForPrograms ==
    [n \in 1..((MaxForBound + 1) * (MaxForBound + 1) * 5) |->
        ChunkFor((n - 1) % (MaxForBound + 1),
                 ((n - 1) \div (MaxForBound + 1)) % (MaxForBound + 1),
                 (n - 1) \div ((MaxForBound + 1) * (MaxForBound + 1)))]
    \o <<ChunkForStepZero, ChunkForStartString, ChunkForVarString,
         ChunkForVarStringContinue>>

NextFor ==
    \/ StartRun(ForPrograms)
    \/ RunReturn
    \/ RunResume
    \/ ExecAssign
    \/ ExecContinue
    \/ ExecIf
    \/ ExecFor
    \/ ForNext

SpecFor == Init /\ [][NextFor]_vars

(***************************************************************************)
(* The number of iterations of a For loop.                                 *)
(***************************************************************************)
\* the statements of a body, nested blocks included
RECURSIVE Flat(_)
Flat(stmts) ==
    IF stmts = <<>> THEN <<>>
    ELSE LET h == Head(stmts)
             inner == CASE h.Node = "IfStmt" -> Flat(h.Then) \o Flat(h.Else)
                        [] h.Node \in {"WhileStmt", "ForStmt", "ForEachStmt"} ->
                             Flat(h.Body)
                        [] OTHER -> <<>>
         IN <<h>> \o inner \o Flat(Tail(stmts))

\* the body holds no break, no return and no assignment of the loop variable
BodyKeeps(stmt) ==
    \A k \in 1..Len(Flat(stmt.Body)) :
        LET b == Flat(stmt.Body)[k]
        IN /\ b.Node \notin {"BreakStmt", "ReturnStmt"}
           /\ b.Node = "AssignStmt" => b.Name # stmt.Var

FloorDiv(a, b) == IF b > 0 THEN a \div b ELSE (0 - a) \div (0 - b)

\* max(0, floor((end - start) / step) + 1)
Expected(startN, endN, step) ==
    IF FloorDiv(endN - startN, step) + 1 > 0
    THEN FloorDiv(endN - startN, step) + 1 ELSE 0

\* the step of the statement: the one given, else +1 when start <= end,
\* else -1
StepOf(stmt, startN, endN, given) ==
    IF stmt.Step.Node # "nil" THEN given
    ELSE IF startN <= endN THEN 1 ELSE 0 - 1

ExpectedAtEntry(stmt, f) ==
    Expected(f.startN, f.endN, StepOf(stmt, f.startN, f.endN, f.step))

ExpectedOf(fr) ==
    Expected(fr.startN, fr.endN, StepOf(fr.stmt, fr.startN, fr.endN, fr.step))

\* at entry the loop is left at once exactly when no iteration is due
EntryCounts ==
    (StmtIs("ForStmt") /\ BodyKeeps(Cur) /\ ForEntry.err.sig = "nil") =>
        IF kont' = kont
        THEN res'.sig = "nil" /\ ExpectedAtEntry(Cur, ForEntry) = 0
        ELSE ExpectedAtEntry(Cur, ForEntry) >= 1

\* after a body the loop is left exactly when the iterations due are done:
\* it goes on only while fewer iterations than due have started
BodyCounts ==
    (Returned("For") /\ BodyKeeps(Top.stmt)) =>
        /\ res.sig \in {"nil", "ContinueSignal"}
        /\ IF Len(kont') < Len(kont)
           THEN res'.sig = "nil" /\ Top.count = ExpectedOf(Top)
           ELSE Top.count < ExpectedOf(Top)

\* C11: a For loop with integer start, end and non-zero step (+1 by default
\* when start <= end, else -1) whose body neither breaks, returns, fails nor
\* assigns the loop variable runs its body max(0, floor((end - start) /
\* step) + 1) times and ends: it starts no iteration beyond that number and
\* is left when that number of iterations is done
C11_ForIterationCount == [][EntryCounts /\ BodyCounts]_vars

\* a loop counting down by the default step has run its three iterations
C11_Witness ==
    /\ Returned("For")
    /\ BodyKeeps(Top.stmt)
    /\ Top.stmt.Step.Node = "nil"
    /\ Top.startN = 2
    /\ Top.endN = 0
    /\ Top.count = 3
    /\ globals["i"] = NumberValue(0)

\* C12: when the body of a For loop has left a value that is not a number
\* in the loop variable, the loop ends with a runtime error: no further
\* iteration starts
C12_NonNumericLoopVarFails ==
    [][(/\ Returned("For")
        /\ res.sig \in {"nil", "ContinueSignal"}
        /\ currentEnv(Me)[Top.stmt.Var].Kind # "ValNumber") =>
           /\ res'.sig = "RuntimeError"
           /\ Len(kont') < Len(kont)]_vars

(***************************************************************************)
(* File handles: the chunks of a session.                                  *)
(***************************************************************************)
\* open #1, "f", "r"
\* x = lineinput(1)
ChunkOpenRead ==
    <<Open(1, Str(<<"f">>), Str(<<"r">>)),
      Assign("x", Call("lineinput", <<Num(1)>>))>>

\* open #1, "g", " R "
\* y = lineinput(1)
\* z = lineinput(1)
ChunkReopenRead ==
    <<Open(1, Str(<<"g">>), Str(<<" ", "R", " ">>)),
      Assign("y", Call("lineinput", <<Num(1)>>)),
      Assign("z", Call("lineinput", <<Num(1)>>))>>

\* close #1
ChunkClose == <<Close(1)>>

\* close #2
\* close #2
ChunkCloseTwice == <<Close(2), Close(2)>>

\* print #2, [1, true]
ChunkPrint == <<PrintHandle(2, ArrayLit(<<Num(1), BoolLit(TRUE)>>))>>

\* open #2, "h", "w"
\* print #2, 10
ChunkOpenWrite ==
    <<Open(2, Str(<<"h">>), Str(<<"w">>)), PrintHandle(2, Num(10))>>

\* open #2, "f", "a"
ChunkOpenAppend == <<Open(2, Str(<<"f">>), Str(<<"a">>))>>

\* open #1, "none", "r"
ChunkOpenMissing == <<Open(1, Str(<<"n", "o", "n", "e">>), Str(<<"r">>))>>

\* if true
\*   open #1, "f", "x"
\* end
ChunkOpenBadMode ==
    <<If(BoolLit(TRUE), <<Open(1, Str(<<"f">>), Str(<<"x">>))>>, <<>>)>>

\* open #0, "f", "r"
ChunkOpenZero == <<Open(0, Str(<<"f">>), Str(<<"r">>))>>

FilePrograms ==
    <<ChunkOpenRead, ChunkReopenRead, ChunkClose, ChunkCloseTwice, ChunkPrint,
      ChunkOpenWrite, ChunkOpenAppend, ChunkOpenMissing, ChunkOpenBadMode,
      ChunkOpenZero>>

NextFiles ==
    \/ StartRun(FilePrograms)
    \/ RunReturn
    \/ RunResume
    \/ ExecAssign
    \/ ExecIf
    \/ ExecOpen
    \/ ExecClose
    \/ ExecPrintHandle

SpecFiles == Init /\ [][NextFiles]_vars

(***************************************************************************)
(* Reopening, closing and writing through handles.                         *)
(***************************************************************************)
OpenFds(h) == {fd \in 1..Len(h.fds) : ~h.fds[fd].closed}

TableFds(h) == {h.files[n] : n \in DOMAIN h.files}

\* a successful open of a handle that is open closes the file the handle
\* had, leaves the handle without reader and installs a new file
ReopenClosesFirst ==
    (StmtIs("OpenStmt") /\ Cur.Handle \in DOMAIN heap.files /\ Advanced) =>
        /\ heap'.fds[heap.files[Cur.Handle]].closed
        /\ Cur.Handle \notin DOMAIN heap'.readers
        /\ heap'.files[Cur.Handle] \notin 1..Len(heap.fds)
        /\ heap'.files[Cur.Handle] \in OpenFds(heap')

\* the first lineinput on a file opened for reading yields its first line
FirstReadIsFirstLine ==
    (/\ StmtIs("AssignStmt")
     /\ Cur.Value = Call("lineinput", <<Num(1)>>)
     /\ 1 \in DOMAIN heap.files
     /\ heap.fds[heap.files[1]].mode = <<"r">>
     /\ heap.fds[heap.files[1]].pos = 0) =>
        /\ Advanced
        /\ globals'[Cur.Name] =
             IF heap.disk[heap.fds[heap.files[1]].path] = <<>> THEN NullValue
             ELSE StringValue(heap.disk[heap.fds[heap.files[1]].path][1])

\* the os files that are open are those of the table, one per handle
OneFilePerHandle ==
    /\ OpenFds(heap) = TableFds(heap)
    /\ Cardinality(TableFds(heap)) = Cardinality(DOMAIN heap.files)
    /\ \A n \in DOMAIN heap.readers :
          n \in DOMAIN heap.files /\ heap.readers[n].fd = heap.files[n]

\* C13: a successful `open #N` on an open handle closes the file the handle
\* had before the new one is installed and discards its reader: the table
\* holds one open file per handle, no other file stays open, and the next
\* lineinput(N) reads the first line of the new file
C13_ReopenClosesPrevious ==
    /\ []OneFilePerHandle
    /\ [][ReopenClosesFirst /\ FirstReadIsFirstLine]_vars

\* handle 1 was reopened on "g" after a line of "f" was read through it,
\* and the next lineinput has read the first line of "g"
C13_Witness ==
    /\ "x" \in DOMAIN globals
    /\ "y" \in DOMAIN globals
    /\ globals["x"] = StringValue(<<"a">>)
    /\ globals["y"] = StringValue(<<"c">>)
    /\ Len(heap.fds) >= 2
    /\ heap.fds[1].path = <<"f">>
    /\ heap.fds[1].closed
    /\ 1 \in DOMAIN heap.files
    /\ heap.fds[heap.files[1]].path = <<"g">>

CloseUnopenedFails ==
    (StmtIs("CloseStmt") /\ Cur.Handle \notin DOMAIN heap.files) =>
        /\ res'.sig = "RuntimeError"
        /\ heap' = heap

PrintUnopenedFails ==
    (StmtIs("PrintHandleStmt") /\ Cur.Handle \notin DOMAIN heap.files) =>
        /\ res'.sig = "RuntimeError"
        /\ heap' = heap

CloseCloses ==
    (StmtIs("CloseStmt") /\ Cur.Handle \in DOMAIN heap.files) =>
        /\ Advanced
        /\ Cur.Handle \notin DOMAIN heap'.files
        /\ heap'.fds[heap.files[Cur.Handle]].closed

\* C14: `close #N` and `print #N, expr` on a handle that is not open fail
\* with a runtime error and leave the handle table (and the files) as they
\* were; a successful `close #N` leaves the handle not open, so that a
\* second `close #N` fails
C14_UnopenedHandleFails ==
    [][CloseUnopenedFails /\ PrintUnopenedFails /\ CloseCloses]_vars

\* a `close #2` has failed after the file that handle 2 had (the one
\* opened for writing) was closed
C14_Witness ==
    /\ res.sig = "RuntimeError"
    /\ res.Msg = "close failed: handle is not open"
    /\ kont = <<>>
    /\ 2 \notin DOMAIN heap.files
    /\ \E fd \in 1..Len(heap.fds) :
          heap.fds[fd].closed /\ heap.fds[fd].mode # <<"r">>

(***************************************************************************)
(* Calls: the chunks of a session.                                         *)
(***************************************************************************)
\* x = len([1, 2])
\* function len(a)
\*   return 7
\* end
\* y = len([1, 2])
ChunkShadow ==
    <<Assign("x", Call("len", <<ArrayLit(<<Num(1), Num(2)>>)>>)),
      FunctionDecl("len", <<"a">>, <<Return(Num(7))>>),
      Assign("y", Call("len", <<ArrayLit(<<Num(1), Num(2)>>)>>))>>

\* function f(a)
\*   return a
\* end
\* w = f()
ChunkArity ==
    <<FunctionDecl("f", <<"a">>, <<Return(Ident("a"))>>),
      Assign("w", Call("f", <<>>))>>

\* nosuch(1)
ChunkUnknown == <<ExprStmt(Call("nosuch", <<Num(1)>>))>>

\* function fw()
\*   n = 0
\*   while true
\*     n = n + 1
\*     if n == 2
\*       return n
\*     end
\*   end
\*   n = 9
\*   return n
\* end
\* r = fw()
ChunkReturnInWhile ==
    <<FunctionDecl("fw", <<>>,
        <<Assign("n", Num(0)),
          While(BoolLit(TRUE),
                <<Assign("n", Binary(Ident("n"), "+", Num(1))),
                  If(Binary(Ident("n"), "==", Num(2)),
                     <<Return(Ident("n"))>>, <<>>)>>),
          Assign("n", Num(9)),
          Return(Ident("n"))>>),
      Assign("r", Call("fw", <<>>))>>

\* function ff()
\*   for i = 0 to 2
\*     for each v in [5, 6]
\*       if i == 1
\*         return v
\*       end
\*     end
\*   end
\*   return 0
\* end
\* q = ff()
ChunkReturnInFor ==
    <<FunctionDecl("ff", <<>>,
        <<For("i", Num(0), Num(2), NoExpr,
              <<ForEach("v", "", ArrayLit(<<Num(5), Num(6)>>),
                        <<If(Binary(Ident("i"), "==", Num(1)),
                             <<Return(Ident("v"))>>, <<>>)>>)>>),
          Return(Num(0))>>),
      Assign("q", Call("ff", <<>>))>>

\* function noret()
\*   k = 1
\* end
\* e = noret()
ChunkNoReturn ==
    <<FunctionDecl("noret", <<>>, <<Assign("k", Num(1))>>),
      Assign("e", Call("noret", <<>>))>>

\* function g()
\*   return 1
\* end
\* function h()
\*   return g()
\* end
\* a = h()
ChunkDeclare ==
    <<FunctionDecl("g", <<>>, <<Return(Num(1))>>),
      FunctionDecl("h", <<>>, <<Return(Call("g", <<>>))>>),
      Assign("a", Call("h", <<>>))>>

\* function g()
\*   return 2
\* end
\* b = h()
ChunkRedeclare ==
    <<FunctionDecl("g", <<>>, <<Return(Num(2))>>),
      Assign("b", Call("h", <<>>))>>

\* function inner()
\*   return undefined
\* end
\* function outer()
\*   t = inner()
\*   return t
\* end
\* outer()
ChunkErrorInCall ==
    <<FunctionDecl("inner", <<>>, <<Return(Ident("undefined"))>>),
      FunctionDecl("outer", <<>>,
                   <<Assign("t", Call("inner", <<>>)), Return(Ident("t"))>>),
      ExprStmt(Call("outer", <<>>))>>

CallPrograms ==
    <<ChunkShadow, ChunkArity, ChunkUnknown, ChunkReturnInWhile,
      ChunkReturnInFor, ChunkNoReturn, ChunkDeclare, ChunkRedeclare,
      ChunkErrorInCall>>

NextCalls ==
    \/ StartRun(CallPrograms)
    \/ RunReturn
    \/ RunResume
    \/ ExecAssign
    \/ ExecExprStmt
    \/ ExecFunctionDecl
    \/ ExecReturn
    \/ ExecIf
    \/ ExecWhile
    \/ WhileNext
    \/ ExecFor
    \/ ForNext
    \/ ExecForEach
    \/ ForEachNext
    \/ ExecCall
    \/ CallReturn

SpecCalls == Init /\ [][NextCalls]_vars

(***************************************************************************)
(* The resolution of a call.                                               *)
(***************************************************************************)
\* the statement under way evaluates a call first
AtCall ==
    /\ AtStmt
    /\ CallSite.Node = "CallExpr"
    /\ Cur.Node = "ReturnStmt" => Len(locals) > 0

BodyStarted(fn) ==
    kont' = kont \o <<[k |-> "Call", fn |-> fn], RunFrame(fn.Body)>>

\* the body does not start: no activation is added and no frame is pushed
NoBody == Len(kont') <= Len(kont) /\ locals' = locals /\ callStack' = callStack

UserFunctionFirst ==
    (AtCall /\ CallSite.Callee \in DOMAIN funcs) =>
        IF Len(CallSite.Args) = Len(funcs[CallSite.Callee].Params)
        THEN BodyStarted(funcs[CallSite.Callee]) \/ res'.sig = "RuntimeError"
        ELSE /\ res'.sig = "RuntimeError"
             /\ res'.Msg = "Function expects a different number of args"
             /\ NoBody
             /\ heap' = heap

BuiltinOtherwise ==
    (AtCall /\ CallSite.Callee \notin DOMAIN funcs) =>
        /\ NoBody
        /\ CallSite.Callee \notin BuiltinNames => res'.sig = "RuntimeError"
        /\ CallSite.Callee \in BuiltinNames => res'.Msg # "Undefined function"

\* C15: a call resolves its callee among the user functions first, and
\* only otherwise among the built-ins: a user function named like a
\* built-in is the one called; a user function called with a number of
\* arguments that differs from its parameter count is a runtime error and
\* its body is not run; a name that is neither is a runtime error
C15_UserFunctionsResolveFirst ==
    [][UserFunctionFirst /\ BuiltinOtherwise]_vars

\* ChunkShadow has run: the built-in len answered before the declaration
\* of the user function len, the user function after it
C15_Witness ==
    /\ kont = <<>>
    /\ {"x", "y"} \subseteq DOMAIN globals
    /\ globals["x"] = NumberValue(2)
    /\ globals["y"] = NumberValue(7)

\* the interpreter after the step
MeAfter == Interp(globals', locals', heap', filename', callStack', funcs', lines')

\* a ReturnStmt executed inside a function raises the signal that carries
\* the value of its expression
ReturnCarries ==
    (/\ StmtIs("ReturnStmt")
     /\ inFunction(Me)
     /\ ~IsUserCall(Cur.Value)
     /\ evalExpr(Me, Cur.Value).err.sig = "nil") =>
        /\ res'.sig = "ReturnSignal"
        /\ res'.Val = evalExpr(Me, Cur.Value).val

\* the signal leaves every block between the return and the call as it
\* is: the Run, If, While, For or ForEach on top ends, nothing else moves
ReturnUnwinds ==
    (/\ res.sig = "ReturnSignal"
     /\ Len(kont) > 0
     /\ Top.k # "Call") =>
        /\ kont' = Pop(kont)
        /\ res' = res
        /\ UNCHANGED <<globals, locals, heap, callStack, funcs>>

\* the statement that made the call of the activation on top
CallerSite == kont[Len(kont) - 1].stmts[kont[Len(kont) - 1].pc]

\* the call yields the value the signal carries
CallYields ==
    (Returned("Call") /\ res.sig = "ReturnSignal") =>
        /\ CallerSite.Node = "AssignStmt" =>
              /\ findVarEnv(MeAfter, CallerSite.Name).ok
              /\ findVarEnv(MeAfter, CallerSite.Name).val = res.Val
              /\ res'.sig = "running"
        /\ CallerSite.Node = "ReturnStmt" =>
              /\ res'.sig = "ReturnSignal"
              /\ res'.Val = res.Val

\* a body that ends without return
NoReturnFails ==
    (Returned("Call") /\ res.sig = "nil") =>
        /\ res'.sig = "RuntimeError"
        /\ res'.Msg = "Function ended without return"

\* C16: a call of a user function yields the value carried by the first
\* return executed in its body, also when the return sits inside nested
\* if / while / for / foreach blocks (the loops stop and no later statement
\* of the body runs); a body that finishes without executing return is a
\* runtime error
C16_CallYieldsFirstReturn ==
    [][ReturnCarries /\ ReturnUnwinds /\ CallYields /\ NoReturnFails]_vars

\* ChunkReturnInWhile and ChunkReturnInFor have run: the return inside
\* while/if gave 2 (not the 9 of the statements after the loop), the
\* return inside for/foreach/if gave 5
C16_Witness ==
    /\ kont = <<>>
    /\ {"r", "q"} \subseteq DOMAIN globals
    /\ globals["r"] = NumberValue(2)
    /\ globals["q"] = NumberValue(5)

\* a declaration replaces the entry of its name and no other
DeclReplaces ==
    StmtIs("FunctionDecl") =>
        /\ DOMAIN funcs' = DOMAIN funcs \cup {Cur.Name}
        /\ funcs'[Cur.Name] = Cur
        /\ \A n \in DOMAIN funcs \ {Cur.Name} : funcs'[n] = funcs[n]

\* only a declaration changes the table
OnlyDeclChanges == funcs' # funcs => StmtIs("FunctionDecl")

\* the body a call starts is the one the table holds when the call is made
CallRunsCurrent ==
    (/\ AtCall
     /\ CallSite.Callee \in DOMAIN funcs
     /\ Len(kont') > Len(kont)) =>
        /\ kont'[Len(kont')] = RunFrame(funcs[CallSite.Callee].Body)
        /\ kont'[Len(kont') - 1].fn = funcs[CallSite.Callee]

\* h, declared once while g returned 1, calls g: `a = h()` follows the
\* declaration of g that returns 1, `b = h()` the one that returns 2
NewestBodyRuns ==
    /\ "a" \in DOMAIN globals => globals["a"] = NumberValue(1)
    /\ "b" \in DOMAIN globals => globals["b"] = NumberValue(2)

\* C17: function declarations are late-bound: a FunctionDecl for a name
\* that exists replaces the table entry, and every later call, also one
\* made from the body of a function declared earlier, runs the most
\* recently declared body
C17_LateBoundDeclarations ==
    /\ [][DeclReplaces /\ OnlyDeclChanges /\ CallRunsCurrent]_vars
    /\ []NewestBodyRuns

\* ChunkDeclare then ChunkRedeclare have run: the same h gave 1, then 2
C17_Witness ==
    /\ kont = <<>>
    /\ {"a", "b"} \subseteq DOMAIN globals
    /\ globals["a"] = NumberValue(1)
    /\ globals["b"] = NumberValue(2)
    /\ funcs["g"].Body = <<Return(Num(2))>>

\* a runtime error is raised by the step
Raised == res.sig # "RuntimeError" /\ res'.sig = "RuntimeError"

\* the error raised carries the names of the calls active at that moment,
\* innermost first (none when no call is active)
StackAtRaise ==
    Raised =>
        /\ Len(res'.Stack) = Len(callStack)
        /\ \A k \in 1..Len(callStack) :
              res'.Stack[k] = callStack[Len(callStack) + 1 - k]

\* while the error travels outwards its Stack stays as it was, whatever
\* the call stack does
StackKept ==
    (res.sig = "RuntimeError" /\ res'.sig = "RuntimeError") =>
        res'.Stack = res.Stack

\* C18: the Stack of a RuntimeError is a copy of the names of the user
\* functions active when the error was raised, innermost call first; it
\* is empty for an error raised with no call active, and later pushes or
\* pops of the interpreter's call stack do not change it
C18_ErrorStackInnermostFirst == [][StackAtRaise /\ StackKept]_vars

\* ChunkErrorInCall has failed inside inner, called from outer, and the
\* error has left both calls
C18_Witness ==
    /\ res.sig = "RuntimeError"
    /\ res.Msg = "Undefined variable"
    /\ res.Stack = <<"inner", "outer">>
    /\ callStack = <<>>
    /\ kont = <<>>

(***************************************************************************)
(* Maps and the array helpers: chunks that build a map m and an array a    *)
(* and then store, delete, pop, insert and remove.                         *)
(***************************************************************************)
KeyA == <<"a">>
KeyB == <<"b">>
Neg(n) == Binary(Num(0), "-", Num(n))

\* m = {}                       m = {"a": 1}
ChunkMapEmpty == <<Assign("m", MapLit(<<>>))>>
ChunkMapOne == <<Assign("m", MapLit(<<Entry(KeyA, Num(1))>>))>>
\* m[k] = v
ChunkMapSet(k, v) == <<IndexAssign("m", Str(k), Num(v))>>
\* del(m, k)
ChunkMapDel(k) == <<ExprStmt(Call("del", <<Ident("m"), Str(k)>>))>>
\* h = has(m, k)
\* g = m[k]
ChunkMapRead(k) ==
    <<Assign("h", Call("has", <<Ident("m"), Str(k)>>)),
      Assign("g", Index(Ident("m"), Str(k)))>>
\* m = {"a": 1}
\* m["b"] = 2
\* m["a"] = 3
\* del(m, "a")
\* del(m, "a")
\* ha = has(m, "a")
\* gb = m["b"]
ChunkMapStoreDel ==
    <<Assign("m", MapLit(<<Entry(KeyA, Num(1))>>)),
      IndexAssign("m", Str(KeyB), Num(2)),
      IndexAssign("m", Str(KeyA), Num(3)),
      ExprStmt(Call("del", <<Ident("m"), Str(KeyA)>>)),
      ExprStmt(Call("del", <<Ident("m"), Str(KeyA)>>)),
      Assign("ha", Call("has", <<Ident("m"), Str(KeyA)>>)),
      Assign("gb", Index(Ident("m"), Str(KeyB)))>>
\* a = []                       a = [1, 2]
ChunkArrEmpty == <<Assign("a", ArrayLit(<<>>))>>
ChunkArrTwo == <<Assign("a", ArrayLit(<<Num(1), Num(2)>>))>>
\* p = pop(a)
ChunkPop == <<Assign("p", Call("pop", <<Ident("a")>>))>>
\* p = remove(a, i)
ChunkRemove(i) == <<Assign("p", Call("remove", <<Ident("a"), i>>))>>
\* insert(a, i, 7)
ChunkInsert(i) == <<ExprStmt(Call("insert", <<Ident("a"), i, Num(7)>>))>>
\* insert(a, 1, 7)
\* q = remove(a, 1)
ChunkInsertRemove ==
    <<ExprStmt(Call("insert", <<Ident("a"), Num(1), Num(7)>>)),
      Assign("q", Call("remove", <<Ident("a"), Num(1)>>))>>

HelperPrograms ==
    <<ChunkMapEmpty, ChunkMapOne,
      ChunkMapSet(KeyA, 1), ChunkMapSet(KeyA, 2), ChunkMapSet(KeyB, 2),
      ChunkMapDel(KeyA), ChunkMapDel(KeyB),
      ChunkMapRead(KeyA), ChunkMapRead(KeyB), ChunkMapStoreDel,
      ChunkArrEmpty, ChunkArrTwo, ChunkPop,
      ChunkRemove(Neg(1)), ChunkRemove(Num(0)), ChunkRemove(Num(1)),
      ChunkRemove(Num(2)),
      ChunkInsert(Neg(1)), ChunkInsert(Num(0)), ChunkInsert(Num(1)),
      ChunkInsert(Num(2)), ChunkInsert(Num(3)),
      ChunkInsertRemove>>

NextHelpers ==
    \/ StartRun(HelperPrograms)
    \/ RunReturn
    \/ ExecAssign
    \/ ExecExprStmt
    \/ ExecIndexAssign

SpecHelpers == Init /\ [][NextHelpers]_vars

\* what has(m, k) and m[k] answer after the step
HasAfter(mv, k) ==
    evalBuiltin(MeAfter, heap', "has", <<mv, StringValue(k)>>).val
ReadAfter(mv, k) == evalIndex(MeAfter, heap', mv, StringValue(k))

\* the statement is `name[index] = value` on a map with a string key
IndexStore == evalList(Me, <<Cur.Index, Cur.Value>>)
MapStoreCase ==
    /\ StmtIs("IndexAssignStmt")
    /\ findVarEnv(Me, Cur.Name).ok
    /\ findVarEnv(Me, Cur.Name).val.Kind = "ValMap"
    /\ IndexStore.err.sig = "nil"
    /\ IndexStore.vals[1].Kind = "ValString"

Stored(mv, k, v) ==
    /\ res'.sig = "running"
    /\ HasAfter(mv, k) = BoolValue(TRUE)
    /\ ReadAfter(mv, k).err.sig = "nil"
    /\ ReadAfter(mv, k).val = v
    /\ DOMAIN heap'.maps[mv.Map] = DOMAIN heap.maps[mv.Map] \cup {k}
    /\ \A x \in DOMAIN heap.maps[mv.Map] \ {k} :
          heap'.maps[mv.Map][x] = heap.maps[mv.Map][x]

MapStore ==
    MapStoreCase => Stored(findVarEnv(Me, Cur.Name).val,
                           IndexStore.vals[1].Str, IndexStore.vals[2])

\* the statement calls the built-in `name`; its arguments have values
BuiltinArgs == evalList(Me, CallSite.Args)
AtBuiltin(name) ==
    /\ AtStmt
    /\ CallSite.Node = "CallExpr"
    /\ CallSite.Callee = name
    /\ name \notin DOMAIN funcs
    /\ BuiltinArgs.err.sig = "nil"

DelCase ==
    /\ AtBuiltin("del")
    /\ Len(BuiltinArgs.vals) = 2
    /\ BuiltinArgs.vals[1].Kind = "ValMap"
    /\ BuiltinArgs.vals[2].Kind = "ValString"

Deleted(mv, k) ==
    /\ res'.sig = "running"
    /\ HasAfter(mv, k) = BoolValue(FALSE)
    /\ DOMAIN heap'.maps[mv.Map] = DOMAIN heap.maps[mv.Map] \ {k}
    /\ \A x \in DOMAIN heap'.maps[mv.Map] :
          heap'.maps[mv.Map][x] = heap.maps[mv.Map][x]
    /\ k \notin DOMAIN heap.maps[mv.Map] => heap' = heap

MapDel == DelCase => Deleted(BuiltinArgs.vals[1], BuiltinArgs.vals[2].Str)

\* C19: for a map m and a string key k, after `m[k] = v` succeeds
\* has(m, k) is true and m[k] is v (an absent key is inserted, a present
\* one overwritten, the other entries unchanged); after del(m, k)
\* has(m, k) is false, and del of an absent key succeeds and changes
\* nothing
C19_MapStoreAndDelete == [][MapStore /\ MapDel]_vars

\* ChunkMapStoreDel has run: "b" was inserted, "a" overwritten, then
\* deleted, then deleted again while absent
C19_Witness ==
    /\ kont = <<>>
    /\ {"m", "ha", "gb"} \subseteq DOMAIN globals
    /\ globals["ha"] = BoolValue(FALSE)
    /\ globals["gb"] = NumberValue(2)
    /\ DOMAIN heap.maps[globals["m"].Map] = {KeyB}

\* the step fails with a runtime error and leaves the heap as it was
FailsUnchanged == res'.sig = "RuntimeError" /\ heap' = heap

\* the built-in `name` is called with n arguments, the first an array
ArrayCase(name, n) ==
    /\ AtBuiltin(name)
    /\ Len(BuiltinArgs.vals) = n
    /\ BuiltinArgs.vals[1].Kind = "ValArray"
    /\ n > 1 => BuiltinArgs.vals[2].Kind = "ValNumber"

\* the length of the array the call is given
ArgLen == BuiltinArgs.heap.arrs[BuiltinArgs.vals[1].Arr].len
ArgIdx == BuiltinArgs.vals[2].Number

PopEmptyFails == (ArrayCase("pop", 1) /\ ArgLen = 0) => FailsUnchanged

RemoveRange ==
    ArrayCase("remove", 2) =>
        IF ArgIdx < 0 \/ ArgIdx >= ArgLen THEN FailsUnchanged
        ELSE res'.sig = "running"

\* s with v put before position idx (zero-based)
WithInserted(s, idx, v) ==
    [k \in 1..(Len(s) + 1) |->
        IF k <= idx THEN s[k] ELSE IF k = idx + 1 THEN v ELSE s[k - 1]]

InsertRange ==
    ArrayCase("insert", 3) =>
        IF ArgIdx >= 0 /\ ArgIdx <= ArgLen
        THEN /\ res'.sig = "running"
             /\ Elems(heap', BuiltinArgs.vals[1].Arr)
                  = WithInserted(Elems(heap, BuiltinArgs.vals[1].Arr), ArgIdx,
                                 BuiltinArgs.vals[3])
        ELSE FailsUnchanged

\* insert(a, idx, v) followed by remove(a, idx) on array o of heap h
InsertThenRemove(h, o, idx, v) ==
    evalBuiltin(Me, evalBuiltin(Me, h, "insert",
                                <<ArrayRef(o), NumberValue(idx), v>>).heap,
                "remove", <<ArrayRef(o), NumberValue(idx)>>)

\* on every array the interpreter holds, at every index insert accepts
RoundTrip ==
    \A o \in DOMAIN heap.arrs : \A idx \in 0..heap.arrs[o].len :
        /\ evalBuiltin(Me, heap, "insert",
                       <<ArrayRef(o), NumberValue(idx), StringValue(KeyA)>>
                      ).err.sig = "nil"
        /\ InsertThenRemove(heap, o, idx, StringValue(KeyA)).err.sig = "nil"
        /\ InsertThenRemove(heap, o, idx, StringValue(KeyA)).val
             = StringValue(KeyA)
        /\ Elems(InsertThenRemove(heap, o, idx, StringValue(KeyA)).heap, o)
             = Elems(heap, o)

\* C20: pop on an empty array and remove with an index outside [0, len)
\* are runtime errors that leave the array unchanged; insert accepts
\* every integer index in [0, len] (index len appends) and rejects all
\* others; after a successful insert(a, i, v), remove(a, i) returns v and
\* the array has its previous contents
C20_ArrayHelperBounds ==
    /\ [][PopEmptyFails /\ RemoveRange /\ InsertRange]_vars
    /\ []RoundTrip

\* a = [1, 2], then ChunkInsertRemove: insert(a, 1, 7) and q = remove(a, 1)
\* have run, and the array is [1, 2] again in a backing array that grew
C20_Witness ==
    /\ kont = <<>>
    /\ {"a", "q"} \subseteq DOMAIN globals
    /\ globals["q"] = NumberValue(7)
    /\ Elems(heap, globals["a"].Arr) = <<NumberValue(1), NumberValue(2)>>
    /\ Len(heap.bufs[heap.arrs[globals["a"].Arr].buf]) > 2

(***************************************************************************)
(* Equality: chunks that give x and y values of every kind, built apart or *)
(* shared, and compare them.                                               *)
(***************************************************************************)
\* 1   2   true   "a"   [1, 2]   [2]   [[1, 2], 2]   [[1, 2], 3]
\* {"a": 1}   {"a": 2}   {"b": 1}   {"a": [1, 2]}   {"a": [2]}
EqualOperands ==
    <<Num(1), Num(2), BoolLit(TRUE), Str(KeyA),
      ArrayLit(<<Num(1), Num(2)>>), ArrayLit(<<Num(2)>>),
      ArrayLit(<<ArrayLit(<<Num(1), Num(2)>>), Num(2)>>),
      ArrayLit(<<ArrayLit(<<Num(1), Num(2)>>), Num(3)>>),
      MapLit(<<Entry(KeyA, Num(1))>>), MapLit(<<Entry(KeyA, Num(2))>>),
      MapLit(<<Entry(KeyB, Num(1))>>),
      MapLit(<<Entry(KeyA, ArrayLit(<<Num(1), Num(2)>>))>>),
      MapLit(<<Entry(KeyA, ArrayLit(<<Num(2)>>))>>)>>

\* x = <operand>
\* y = x
ChunkBoth(e) == <<Assign("x", e), Assign("y", Ident("x"))>>
\* y = <operand>
ChunkOther(e) == <<Assign("y", e)>>
\* y[0] = 2
ChunkStoreY == <<IndexAssign("y", Num(0), Num(2))>>
\* e = x == y
\* n = x != y
ChunkCompare ==
    <<Assign("e", Binary(Ident("x"), "==", Ident("y"))),
      Assign("n", Binary(Ident("x"), "!=", Ident("y")))>>

EqualPrograms ==
    [k \in 1..(2 * Len(EqualOperands)) |->
        IF k <= Len(EqualOperands) THEN ChunkBoth(EqualOperands[k])
        ELSE ChunkOther(EqualOperands[k - Len(EqualOperands)])]
    \o <<ChunkStoreY, ChunkCompare>>

NextEqual ==
    \/ StartRun(EqualPrograms)
    \/ RunReturn
    \/ ExecAssign
    \/ ExecIndexAssign

SpecEqual == Init /\ [][NextEqual]_vars

\* the contents of a value, free of storage: the kind, the scalar, the
\* contents of the elements in order, the contents of the entries by key
RECURSIVE Content(_, _)
Content(h, v) ==
    [Kind |-> v.Kind, Number |-> v.Number, Str |-> v.Str, Bool |-> v.Bool,
     Elems |-> IF v.Kind = "ValArray"
               THEN [k \in 1..h.arrs[v.Arr].len |->
                        Content(h, h.bufs[h.arrs[v.Arr].buf][k])]
               ELSE <<>>,
     Entries |-> IF v.Kind = "ValMap"
                 THEN [k \in DOMAIN h.maps[v.Map] |-> Content(h, h.maps[v.Map][k])]
                 ELSE <<>>]

\* the statement assigns `left == right` or `left != right`
AtComparison ==
    /\ StmtIs("AssignStmt")
    /\ Cur.Value.Node = "BinaryExpr"
    /\ Cur.Value.Op \in {"==", "!="}
    /\ evalList(Me, <<Cur.Value.Left, Cur.Value.Right>>).err.sig = "nil"

Compared(name, op, h, l, r) ==
    /\ res'.sig = "running"
    /\ heap' = h
    /\ globals'[name] = BoolValue((Content(h, l) = Content(h, r)) <=> (op = "=="))

InSeq(c, cs) == \E k \in 1..Len(cs) : cs[k] = c
UpChar(c) ==
    IF InSeq(c, LowerChars)
    THEN UpperChars[CHOOSE k \in 1..Len(LowerChars) : LowerChars[k] = c]
    ELSE c
AllUpper(w) == [k \in 1..Len(w) |-> UpChar(w[k])]
Capitalized(w) == [k \in 1..Len(w) |-> IF k = 1 THEN UpChar(w[k]) ELSE w[k]]

IsLetter(ch) == InSeq(ch, LowerChars) \/ InSeq(ch, UpperChars)
IsDigit(ch) == InSeq(ch, DigitChars)
isIdentStart(ch) == IsLetter(ch) \/ ch = "_"
isIdentPart(ch) == IsLetter(ch) \/ IsDigit(ch) \/ ch = "_"

\* the keywords of LookupIdent, each accepted in three spellings
Keywords ==
    <<[w |-> <<"p", "r", "i", "n", "t">>, t |-> "PRINT"],
      [w |-> <<"i", "f">>, t |-> "IF"],
      [w |-> <<"e", "l", "s", "e">>, t |-> "ELSE"],
      [w |-> <<"e", "n", "d">>, t |-> "END"],
      [w |-> <<"w", "h", "i", "l", "e">>, t |-> "WHILE"],
      [w |-> <<"f", "o", "r">>, t |-> "FOR"],
      [w |-> <<"t", "o">>, t |-> "TO"],
      [w |-> <<"s", "t", "e", "p">>, t |-> "STEP"],
      [w |-> <<"f", "u", "n", "c", "t", "i", "o", "n">>, t |-> "FUNCTION"],
      [w |-> <<"r", "e", "t", "u", "r", "n">>, t |-> "RETURN"],
      [w |-> <<"t", "r", "u", "e">>, t |-> "TRUE"],
      [w |-> <<"f", "a", "l", "s", "e">>, t |-> "FALSE"],
      [w |-> <<"e", "a", "c", "h">>, t |-> "EACH"],
      [w |-> <<"i", "n">>, t |-> "IN"],
      [w |-> <<"a", "n", "d">>, t |-> "AND"],
      [w |-> <<"o", "r">>, t |-> "OR"],
      [w |-> <<"n", "o", "t">>, t |-> "NOT"]>>

LookupIdent(ident) ==
    IF \E k \in 1..Len(Keywords) :
          ident \in {Keywords[k].w, AllUpper(Keywords[k].w),
                     Capitalized(Keywords[k].w)}
    THEN Keywords[CHOOSE k \in 1..Len(Keywords) :
                     ident \in {Keywords[k].w, AllUpper(Keywords[k].w),
                                Capitalized(Keywords[k].w)}].t
    ELSE "IDENT"

\* Lexer.line and Lexer.col when the next character is src[pos]
LineAt(src, pos) == 1 + Cardinality({k \in 1..(pos - 1) : src[k] = "\n"})
ColAt(src, pos) ==
    pos - (IF \E k \in 1..(pos - 1) : src[k] = "\n"
           THEN CHOOSE k \in 1..(pos - 1) :
                   /\ src[k] = "\n"
                   /\ \A j \in (k + 1)..(pos - 1) : src[j] # "\n"
           ELSE 0)

Token(type, lexeme, src, pos) ==
    [Type |-> type, Lexeme |-> lexeme, Line |-> LineAt(src, pos),
     Col |-> ColAt(src, pos)]

RECURSIVE skipWhitespaceExceptNewline(_, _)
skipWhitespaceExceptNewline(src, pos) ==
    IF pos <= Len(src) /\ src[pos] \in {" ", "\t"}
    THEN skipWhitespaceExceptNewline(src, pos + 1)
    ELSE pos

RECURSIVE skipComment(_, _)
skipComment(src, pos) ==
    IF pos <= Len(src) /\ src[pos] # "\n" THEN skipComment(src, pos + 1)
    ELSE pos

\* readIdent: the position after the identifier that starts at pos
RECURSIVE readIdent(_, _)
readIdent(src, pos) ==
    IF pos <= Len(src) /\ isIdentPart(src[pos]) THEN readIdent(src, pos + 1)
    ELSE pos

RECURSIVE readDigits(_, _)
readDigits(src, pos) ==
    IF pos <= Len(src) /\ IsDigit(src[pos]) THEN readDigits(src, pos + 1)
    ELSE pos

\* readNumber: digits, then `.` and digits when a digit follows the dot
decimalPart(src, pos) ==
    IF pos + 1 <= Len(src) /\ src[pos] = "." /\ IsDigit(src[pos + 1])
    THEN readDigits(src, pos + 1)
    ELSE pos
readNumber(src, pos) == decimalPart(src, readDigits(src, pos))

\* readString from the character after the opening quote; acc is the
\* text read so far
Unescaped(esc) ==
    CASE esc = "n" -> "\n" [] esc = "r" -> "\r" [] esc = "t" -> "\t"
      [] OTHER -> esc
RECURSIVE readString(_, _, _)
readString(src, pos, acc) ==
    IF pos > Len(src) THEN [ok |-> FALSE, pos |-> pos, s |-> <<>>]
    ELSE IF src[pos] = "\"" THEN [ok |-> TRUE, pos |-> pos + 1, s |-> acc]
    ELSE IF src[pos] = "\\"
    THEN IF pos + 1 > Len(src) THEN [ok |-> FALSE, pos |-> pos + 1, s |-> <<>>]
         ELSE readString(src, pos + 2, Append(acc, Unescaped(src[pos + 1])))
    ELSE readString(src, pos + 1, Append(acc, src[pos]))

stringToken(src, pos, r) ==
    [tok |-> IF r.ok THEN Token("STRING", r.s, src, pos)
             ELSE Token("ILLEGAL", <<"unterminated string">>, src, pos),
     pos |-> r.pos]

TwoChar ==
    <<[a |-> "=", t |-> "EQ"], [a |-> "!", t |-> "NEQ"],
      [a |-> "<", t |-> "LTE"], [a |-> ">", t |-> "GTE"]>>
SingleChar ==
    <<[a |-> "=", t |-> "ASSIGN"], [a |-> "+", t |-> "PLUS"],
      [a |-> "-", t |-> "MINUS"], [a |-> "*", t |-> "STAR"],
      [a |-> "/", t |-> "SLASH"], [a |-> "(", t |-> "LPAREN"],
      [a |-> ")", t |-> "RPAREN"], [a |-> "[", t |-> "LBRACKET"],
      [a |-> "]", t |-> "RBRACKET"], [a |-> "{", t |-> "LBRACE"],
      [a |-> "}", t |-> "RBRACE"], [a |-> ":", t |-> "COLON"],
      [a |-> ",", t |-> "COMMA"], [a |-> "<", t |-> "LT"],
      [a |-> ">", t |-> "GT"]>>
TypeOf(ch, table) ==
    IF \E k \in 1..Len(table) : table[k].a = ch
    THEN table[CHOOSE k \in 1..Len(table) : table[k].a = ch].t
    ELSE "ILLEGAL"

\* NextToken once the blanks are skipped: the token and the position
\* after it
RECURSIVE tokenAt(_, _)
NextToken(src, pos) == tokenAt(src, skipWhitespaceExceptNewline(src, pos))
tokenAt(src, p) ==
    IF p > Len(src) THEN [tok |-> Token("EOF", <<>>, src, p), pos |-> p]
    ELSE IF src[p] = "\n"
    THEN [tok |-> Token("NEWLINE", <<"\n">>, src, p), pos |-> p + 1]
    ELSE IF src[p] = "#" THEN NextToken(src, skipComment(src, p))
    ELSE IF isIdentStart(src[p])
    THEN [tok |-> Token(LookupIdent(SubSeq(src, p, readIdent(src, p) - 1)),
                        SubSeq(src, p, readIdent(src, p) - 1), src, p),
          pos |-> readIdent(src, p)]
    ELSE IF IsDigit(src[p])
    THEN [tok |-> Token("NUMBER", SubSeq(src, p, readNumber(src, p) - 1), src, p),
          pos |-> readNumber(src, p)]
    ELSE IF src[p] = "\"" THEN stringToken(src, p, readString(src, p + 1, <<>>))
    ELSE IF /\ p + 1 <= Len(src)
            /\ src[p + 1] = "="
            /\ TypeOf(src[p], TwoChar) # "ILLEGAL"
    THEN [tok |-> Token(TypeOf(src[p], TwoChar), <<src[p], "=">>, src, p),
          pos |-> p + 2]
    ELSE [tok |-> Token(TypeOf(src[p], SingleChar), <<src[p]>>, src, p),
          pos |-> p + 1]

\* lexer.New: a source text is handed to a new Lexer
LexNew(sources) ==
    /\ front = NoFront
    /\ \E src \in sources : front' = [NoFront EXCEPT !.src = src, !.pos = 1]
    /\ UNCHANGED <<globals, locals, funcs, filename, callStack, modules,
                   moduleStack, heap, kont, res, chunks, importLog, lines>>

\* the tokens of the text have been read up to EOF
Lexed == front.toks # <<>> /\ front.toks[Len(front.toks)].Type = "EOF"

\* one call of NextToken
LexToken ==
    /\ front.pos > 0
    /\ ~Lexed
    /\ front' = [front EXCEPT !.toks = Append(@, NextToken(front.src, front.pos).tok),
                              !.pos = NextToken(front.src, front.pos).pos]
    /\ UNCHANGED <<globals, locals, funcs, filename, callStack, modules,
                   moduleStack, heap, kont, res, chunks, importLog, lines>>

MaxSrcLen == 4
LexChars == {"c", "1", "#", " ", "\n"}
RECURSIVE Texts(_)
Texts(n) ==
    IF n = 0 THEN {<<>>}
    ELSE Texts(n - 1) \cup {Append(t, c) : t \in Texts(n - 1), c \in LexChars}

NextLexer ==
    \/ LexNew(Texts(MaxSrcLen))
    \/ LexToken

SpecLexer == Init /\ [][NextLexer]_vars

\* the first `#` of its line: no `#` before it on the same line
FirstHash(src, p) ==
    /\ src[p] = "#"
    /\ \A j \in 1..(p - 1) :
          src[j] = "#" => \E k \in (j + 1)..(p - 1) : src[k] = "\n"
TokenStartsAt(tok, src, p) == tok.Line = LineAt(src, p) /\ tok.Col = ColAt(src, p)

\* C22: a `#` starts a comment that runs up to, not including, the end of
\* the line, unless a digit follows it immediately; then the lexer emits a
\* Hash token and after it the number as a token of its own.
C22_HashBeforeDigitIsToken ==
    Lexed =>
        /\ Cardinality({k \in 1..Len(front.toks) : front.toks[k].Type = "NEWLINE"})
              = Cardinality({p \in 1..Len(front.src) : front.src[p] = "\n"})
        /\ \A p \in 1..Len(front.src) :
              FirstHash(front.src, p) =>
                  IF p + 1 <= Len(front.src) /\ IsDigit(front.src[p + 1])
                  THEN \E k \in 1..(Len(front.toks) - 1) :
                          /\ front.toks[k].Type = "HASH"
                          /\ TokenStartsAt(front.toks[k], front.src, p)
                          /\ front.toks[k + 1].Type = "NUMBER"
                          /\ TokenStartsAt(front.toks[k + 1], front.src, p + 1)
                  ELSE \A k \in 1..Len(front.toks) :
                          /\ front.toks[k].Line = LineAt(front.src, p)
                          /\ front.toks[k].Col >= ColAt(front.src, p)
                          => front.toks[k].Type \in {"NEWLINE", "EOF"}

(***************************************************************************)
(* The Parser, as the positions it moves through.  toks is the token list  *)
(* of the Lexer, i the index of Parser.cur (Parser.peek is the token after *)
(* it); the Lexer answers EOF again after the end.  An expression parser   *)
(* yields the index it stops at and whether it failed; a statement parser  *)
(* yields also the statements it built, each with the index of its first   *)
(* token and the index at which the statement before it in the same        *)
(* sequence ended (0 for the first of a sequence).                         *)
(***************************************************************************)
Ty(toks, i) == IF i <= Len(toks) THEN toks[i].Type ELSE "EOF"
At(i) == [p |-> i, err |-> FALSE]
errAt(i) == [p |-> i, err |-> TRUE]
Built(r, stmts) == [p |-> r.p, err |-> r.err, stmts |-> IF r.err THEN <<>> ELSE stmts]
expect(toks, r, type) ==
    IF r.err THEN r
    ELSE IF Ty(toks, r.p) = type THEN At(r.p + 1) ELSE errAt(r.p)

isCompareTok(t) == t \in {"EQ", "NEQ", "LT", "GT", "LTE", "GTE"}

RECURSIVE parseExpr(_, _), parseOr(_, _), orRest(_, _), parseAnd(_, _)
RECURSIVE andRest(_, _), parseComparison(_, _), parseAddSub(_, _)
RECURSIVE addSubRest(_, _), parseMulDiv(_, _), mulDivRest(_, _)
RECURSIVE parseUnary(_, _), parsePostfix(_, _), postfixRest(_, _)
RECURSIVE parsePrimary(_, _), listRest(_, _, _), parseArrayLiteral(_, _)
RECURSIVE parseMapLiteral(_, _), mapEntry(_, _), mapRest(_, _)

parseExpr(toks, i) == parseOr(toks, i)

parseOr(toks, i) == orRest(toks, parseAnd(toks, i))
orRest(toks, r) ==
    IF r.err THEN r
    ELSE IF Ty(toks, r.p) = "OR" THEN orRest(toks, parseAnd(toks, r.p + 1))
    ELSE r

parseAnd(toks, i) == andRest(toks, parseComparison(toks, i))
andRest(toks, r) ==
    IF r.err THEN r
    ELSE IF Ty(toks, r.p) = "AND"
    THEN andRest(toks, parseComparison(toks, r.p + 1))
    ELSE r

\* at most one comparison operator
compareRest(toks, r) ==
    IF r.err THEN r
    ELSE IF isCompareTok(Ty(toks, r.p)) THEN parseAddSub(toks, r.p + 1)
    ELSE r
parseComparison(toks, i) == compareRest(toks, parseAddSub(toks, i))

parseAddSub(toks, i) == addSubRest(toks, parseMulDiv(toks, i))
addSubRest(toks, r) ==
    IF r.err THEN r
    ELSE IF Ty(toks, r.p) \in {"PLUS", "MINUS"}
    THEN addSubRest(toks, parseMulDiv(toks, r.p + 1))
    ELSE r

parseMulDiv(toks, i) == mulDivRest(toks, parseUnary(toks, i))
mulDivRest(toks, r) ==
    IF r.err THEN r
    ELSE IF Ty(toks, r.p) \in {"STAR", "SLASH"}
    THEN mulDivRest(toks, parseUnary(toks, r.p + 1))
    ELSE r

parseUnary(toks, i) ==
    IF Ty(toks, i) = "NOT" THEN parseUnary(toks, i + 1)
    ELSE parsePostfix(toks, i)

parsePostfix(toks, i) == postfixRest(toks, parsePrimary(toks, i))
postfixRest(toks, r) ==
    IF r.err THEN r
    ELSE IF Ty(toks, r.p) = "LBRACKET"
    THEN postfixRest(toks, expect(toks, parseExpr(toks, r.p + 1), "RBRACKET"))
    ELSE r

\* after one element of a call's arguments or of an array literal
listRest(toks, r, close) ==
    IF r.err THEN r
    ELSE IF Ty(toks, r.p) = "COMMA"
    THEN listRest(toks, parseExpr(toks, r.p + 1), close)
    ELSE IF Ty(toks, r.p) = close THEN At(r.p + 1)
    ELSE errAt(r.p)

parsePrimary(toks, i) ==
    CASE Ty(toks, i) \in {"STRING", "NUMBER", "TRUE", "FALSE"} -> At(i + 1)
      [] Ty(toks, i) = "IDENT" ->
            IF Ty(toks, i + 1) = "LPAREN"
            THEN IF Ty(toks, i + 2) = "RPAREN" THEN At(i + 3)
                 ELSE listRest(toks, parseExpr(toks, i + 2), "RPAREN")
            ELSE At(i + 1)
      [] Ty(toks, i) = "LPAREN" -> expect(toks, parseExpr(toks, i + 1), "RPAREN")
      [] Ty(toks, i) = "LBRACKET" -> parseArrayLiteral(toks, i)
      [] Ty(toks, i) = "LBRACE" -> parseMapLiteral(toks, i)
      [] OTHER -> errAt(i)

parseArrayLiteral(toks, i) ==
    IF Ty(toks, i + 1) = "RBRACKET" THEN At(i + 2)
    ELSE listRest(toks, parseExpr(toks, i + 1), "RBRACKET")

parseMapLiteral(toks, i) ==
    IF Ty(toks, i + 1) = "RBRACE" THEN At(i + 2) ELSE mapEntry(toks, i + 1)
mapEntry(toks, i) ==
    IF Ty(toks, i) # "STRING" THEN errAt(i)
    ELSE IF Ty(toks, i + 1) # "COLON" THEN errAt(i + 1)
    ELSE mapRest(toks, parseExpr(toks, i + 2))
mapRest(toks, r) ==
    IF r.err THEN r
    ELSE IF Ty(toks, r.p) = "COMMA" THEN mapEntry(toks, r.p + 1)
    ELSE IF Ty(toks, r.p) = "RBRACE" THEN At(r.p + 1)
    ELSE errAt(r.p)

RECURSIVE skipNewlines(_, _)
skipNewlines(toks, i) ==
    IF Ty(toks, i) = "NEWLINE" THEN skipNewlines(toks, i + 1) ELSE i

\* the end of a block header: a NEWLINE is required, further ones are skipped
headerEnd(toks, r) ==
    IF r.err THEN r
    ELSE IF Ty(toks, r.p) # "NEWLINE" THEN errAt(r.p)
    ELSE At(skipNewlines(toks, r.p))

\* the parameter list of a function declaration, from the token after `(`
RECURSIVE paramList(_, _)
paramList(toks, i) ==
    IF Ty(toks, i) # "IDENT" THEN errAt(i)
    ELSE IF Ty(toks, i + 1) = "COMMA" THEN paramList(toks, i + 2)
    ELSE IF Ty(toks, i + 1) = "RPAREN" THEN At(i + 2)
    ELSE errAt(i + 1)

forStep(toks, r) ==
    IF r.err THEN r
    ELSE IF Ty(toks, r.p) = "STEP" THEN parseExpr(toks, r.p + 1)
    ELSE r
forTo(toks, r) ==
    IF r.err THEN r
    ELSE IF Ty(toks, r.p) # "TO" THEN errAt(r.p)
    ELSE forStep(toks, parseExpr(toks, r.p + 1))

RECURSIVE parseStmt(_, _), statements(_, _, _, _, _), afterStmt(_, _, _, _, _, _)
RECURSIVE blockAfter(_, _, _), parseIf(_, _), ifElse(_, _), ifEnd(_, _, _)
RECURSIVE parseWhile(_, _), parseFor(_, _), parseFunctionDecl(_, _)

\* the loop of ParseProgram (no terminators) and of parseBlockUntil: cur is
\* toks[i], the statement before ended at prevEnd, acc are the statements
\* built so far
statements(toks, i, terminators, prevEnd, acc) ==
    IF Ty(toks, i) = "EOF" \/ Ty(toks, i) \in terminators
    THEN [p |-> i, err |-> FALSE, stmts |-> acc]
    ELSE IF Ty(toks, i) = "NEWLINE"
    THEN statements(toks, i + 1, terminators, prevEnd, acc)
    ELSE afterStmt(toks, i, terminators, prevEnd, acc, parseStmt(toks, i))
afterStmt(toks, at, terminators, prevEnd, acc, r) ==
    IF r.err THEN Built(r, <<>>)
    ELSE statements(toks, skipNewlines(toks, r.p), terminators, r.p,
                    acc \o <<[at |-> at, prevEnd |-> prevEnd]>> \o r.stmts)

parseBlockUntil(toks, i, terminators) == statements(toks, i, terminators, 0, <<>>)
ParseProgram(toks) == statements(toks, 1, {}, 0, <<>>)

\* the block that follows a header which ended as r
blockAfter(toks, r, terminators) ==
    IF r.err THEN Built(r, <<>>) ELSE parseBlockUntil(toks, r.p, terminators)

\* the `end` that closes block b
closeBlock(toks, b) ==
    IF b.err THEN b
    ELSE IF Ty(toks, b.p) = "END" THEN [b EXCEPT !.p = @ + 1]
    ELSE Built(errAt(b.p), <<>>)

parseIf(toks, i) ==
    ifElse(toks, blockAfter(toks, headerEnd(toks, parseExpr(toks, i + 1)),
                            {"ELSE", "END"}))
ifElse(toks, b) ==
    IF b.err THEN b
    ELSE IF Ty(toks, b.p) = "ELSE"
    THEN ifEnd(toks, b.stmts,
               blockAfter(toks, headerEnd(toks, At(b.p + 1)), {"END"}))
    ELSE closeBlock(toks, b)
ifEnd(toks, thenStmts, b) ==
    IF b.err THEN b
    ELSE closeBlock(toks, [b EXCEPT !.stmts = thenStmts \o @])

parseWhile(toks, i) ==
    closeBlock(toks, blockAfter(toks, headerEnd(toks, parseExpr(toks, i + 1)),
                                {"END"}))

parseFor(toks, i) ==
    IF Ty(toks, i + 1) # "IDENT" THEN Built(errAt(i + 1), <<>>)
    ELSE IF Ty(toks, i + 2) # "ASSIGN" THEN Built(errAt(i + 2), <<>>)
    ELSE closeBlock(toks,
             blockAfter(toks, headerEnd(toks, forTo(toks, parseExpr(toks, i + 3))),
                        {"END"}))

parseFunctionDecl(toks, i) ==
    IF Ty(toks, i + 1) # "IDENT" THEN Built(errAt(i + 1), <<>>)
    ELSE IF Ty(toks, i + 2) # "LPAREN" THEN Built(errAt(i + 2), <<>>)
    ELSE closeBlock(toks,
             blockAfter(toks,
                        headerEnd(toks, IF Ty(toks, i + 3) = "RPAREN" THEN At(i + 4)
                                        ELSE paramList(toks, i + 3)),
                        {"END"}))

parsePrint(toks, i) == Built(parseExpr(toks, i + 1), <<>>)
parseReturn(toks, i) == Built(parseExpr(toks, i + 1), <<>>)
parseImport(toks, i) ==
    Built(IF Ty(toks, i + 1) = "STRING" THEN At(i + 2) ELSE errAt(i + 1), <<>>)
parseAssign(toks, i) == Built(parseExpr(toks, i + 2), <<>>)
assignedValue(toks, r) == IF r.err THEN r ELSE parseExpr(toks, r.p)
parseIndexAssign(toks, i) ==
    Built(assignedValue(toks,
              expect(toks, expect(toks, parseExpr(toks, i + 2), "RBRACKET"),
                     "ASSIGN")), <<>>)
parseExprStmt(toks, i) == Built(parseExpr(toks, i), <<>>)

parseStmt(toks, i) ==
    CASE Ty(toks, i) = "PRINT" -> parsePrint(toks, i)
      [] Ty(toks, i) = "IF" -> parseIf(toks, i)
      [] Ty(toks, i) = "WHILE" -> parseWhile(toks, i)
      [] Ty(toks, i) = "FOR" -> parseFor(toks, i)
      [] Ty(toks, i) = "FUNCTION" -> parseFunctionDecl(toks, i)
      [] Ty(toks, i) = "RETURN" -> parseReturn(toks, i)
      [] Ty(toks, i) = "IMPORT" -> parseImport(toks, i)
      [] Ty(toks, i) = "IDENT" /\ Ty(toks, i + 1) = "LBRACKET" ->
            parseIndexAssign(toks, i)
      [] Ty(toks, i) = "IDENT" /\ Ty(toks, i + 1) = "ASSIGN" -> parseAssign(toks, i)
      [] Ty(toks, i) = "IDENT" /\ Ty(toks, i + 1) = "LPAREN" ->
            parseExprStmt(toks, i)
      [] OTHER -> Built(errAt(i), <<>>)

\* the outcome r of ParseProgram is kept
Parsed(r) ==
    front' = [front EXCEPT !.parsed = TRUE, !.err = r.err, !.stmts = r.stmts]

\* parser.New(lexer).ParseProgram() over the tokens of the text
Parse ==
    /\ Lexed
    /\ ~front.parsed
    /\ Parsed(ParseProgram(front.toks))
    /\ UNCHANGED <<globals, locals, funcs, filename, callStack, modules,
                   moduleStack, heap, kont, res, chunks, importLog, lines>>

\* the pieces source texts are put together from
MaxPieces == 5
Pieces ==
    {<<"x", " ", "=", " ", "1", " ">>, <<"i", "f", " ", "x", " ">>,
     <<"e", "l", "s", "e", " ">>, <<"e", "n", "d", " ">>, <<"\n">>}
RECURSIVE Pieced(_)
Pieced(n) ==
    IF n = 0 THEN {<<>>}
    ELSE Pieced(n - 1) \cup {t \o c : t \in Pieced(n - 1), c \in Pieces}

NextParser ==
    \/ LexNew(Pieced(MaxPieces))
    \/ LexToken
    \/ Parse

SpecParser == Init /\ [][NextParser]_vars

\* C23: the parser accepts a sequence of statements, at top level and inside
\* a block, only when at least one NEWLINE separates each statement from
\* the one before it (`x = 1 y = 2` on one line is rejected).
C23_StatementsSeparatedByNewline ==
    (front.parsed /\ ~front.err) =>
        \A k \in 1..Len(front.stmts) :
            front.stmts[k].prevEnd # 0 =>
                \E j \in front.stmts[k].prevEnd..(front.stmts[k].at - 1) :
                    front.toks[j].Type = "NEWLINE"

(***************************************************************************)
(* Printing: chunks that build the map of the maps example, or a part of   *)
(* it, with the entries in any order, and write its keys and the map.      *)
(***************************************************************************)
KeyName == <<"n", "a", "m", "e">>
KeyLang == <<"l", "a", "n", "g">>
KeyYear == <<"y", "e", "a", "r">>
\* "name": "Edward"   "lang": "BPL+"   "year": 2026
ExampleEntries ==
    <<Entry(KeyName, Str(<<"E", "d", "w", "a", "r", "d">>)),
      Entry(KeyLang, Str(<<"B", "P", "L", "+">>)),
      Entry(KeyYear, Num(2026))>>
\* the orders of up to three distinct entries
EntryOrders ==
    <<<<>>, <<1>>, <<2>>, <<3>>, <<1, 2>>, <<2, 1>>, <<1, 3>>, <<3, 1>>,
      <<2, 3>>, <<3, 2>>, <<1, 2, 3>>, <<1, 3, 2>>, <<2, 1, 3>>, <<2, 3, 1>>,
      <<3, 1, 2>>, <<3, 2, 1>>>>
\* pm = {<entries>}
\* print keys(pm)
ChunkPrintKeys(order) ==
    <<Assign("pm", MapLit([k \in 1..Len(order) |-> ExampleEntries[order[k]]])),
      PrintStmt(Call("keys", <<Ident("pm")>>))>>
\* print pm
\* ps = str(keys(pm))
\* print keys(ps)
ChunkPrintMap ==
    <<PrintStmt(Ident("pm")),
      Assign("ps", Call("str", <<Call("keys", <<Ident("pm")>>)>>)),
      PrintStmt(Call("keys", <<Ident("ps")>>))>>

PrintPrograms ==
    [k \in 1..Len(EntryOrders) |-> ChunkPrintKeys(EntryOrders[k])]
    \o <<ChunkPrintMap>>

NextPrint ==
    \/ StartRun(PrintPrograms)
    \/ RunReturn
    \/ ExecAssign
    \/ ExecPrint

SpecPrint == Init /\ [][NextPrint]_vars

\* the statement about to run is `print keys(pm)` and pm holds a map
AtPrintKeys ==
    /\ AtStmt
    /\ Cur.Node = "PrintStmt"
    /\ Cur.Value = Call("keys", <<Ident("pm")>>)
    /\ "pm" \in DOMAIN globals
    /\ globals["pm"].Kind = "ValMap"
KeysOfPm == DOMAIN heap.maps[globals["pm"].Map]
\* ["lang", "name", "year"]
ExampleLine ==
    <<"[", "\"", "l", "a", "n", "g", "\"", ",", " ", "\"", "n", "a", "m", "e",
      "\"", ",", " ", "\"", "y", "e", "a", "r", "\"", "]">>

\* C24: `print keys(m)` writes one line, the array of the keys of m in
\* sorted order with each string element in double quotes; for the map of
\* the example the line is ["lang", "name", "year"].
C24_PrintKeysQuotedSorted ==
    [][AtPrintKeys =>
          /\ heap'.out = Append(heap.out,
                <<"[">> \o JoinStrings([k \in 1..Cardinality(KeysOfPm) |->
                                          Quoted(SortStrings(KeysOfPm)[k])])
                        \o <<"]">>)
          /\ KeysOfPm = {KeyName, KeyLang, KeyYear} =>
                heap'.out[Len(heap'.out)] = ExampleLine]_vars

(***************************************************************************)
(* Diagnostic context: chunks that import modules which succeed, fail and  *)
(* import further modules, and that fail themselves after an import.       *)
(***************************************************************************)
\* import "m"
\* w = nope
ChunkImportThenFail == <<Import(Rel("m")), Assign("w", Ident("nope"))>>

ContextPrograms ==
    <<ChunkImportThenFail,
      <<Import(Rel("c"))>>,
      <<Import(Rel("bad")), Assign("w", Num(1))>>,
      <<Import(Rel("a"))>>,
      <<Assign("w", Ident("nope"))>>,
      ChunkImportInFunction>>

NextContext ==
    \/ StartRun(ContextPrograms)
    \/ RunReturn
    \/ ExecAssign
    \/ ExecFunctionDecl
    \/ ExecReturn
    \/ ExecCall
    \/ CallReturn
    \/ ExecImport
    \/ ImportReturn

SpecContext == Init /\ [][NextContext]_vars

\* the file whose program the activations k are executing and its source
\* lines: the module of the innermost import, or the chunk when no import
\* is under way
Importing(k) == {j \in 1..Len(k) : k[j].k = "Import"}
Innermost(k) == k[CHOOSE j \in Importing(k) : \A n \in Importing(k) : n <= j]
ContextOf(k) ==
    IF Importing(k) = {}
    THEN [filename |-> replChunkFilename(chunks),
          lines |-> [n \in 1..Len(k[1].stmts) |->
                       [file |-> replChunkFilename(chunks), line |-> n]]]
    ELSE [filename |-> Innermost(k).resolved,
          lines |-> [n \in 1..Len(Files[Innermost(k).resolved]) |->
                       [file |-> Innermost(k).resolved, line |-> n]]]
Context == [filename |-> filename, lines |-> lines]
ContextAfter == [filename |-> filename', lines |-> lines']

\* while a module's program executes the context is the module's
ModuleContext == kont # <<>> => Context = ContextOf(kont)
\* when the import statement finishes, by success or by failure, the
\* context is the importer's again
ImporterContext == Returned("Import") => ContextAfter = ContextOf(Pop(kont))
\* an error raised by a statement carries the file and the lines of the
\* program the statement belongs to
ErrorContext ==
    (AtStmt /\ res'.sig = "RuntimeError") =>
        /\ res'.File = ContextOf(kont).filename
        /\ res'.Lines = ContextOf(kont).lines

\* C25: while a module's program executes, the diagnostic context (file
\* name, source lines) is the module's; when the import statement finishes,
\* whether the module succeeded or failed and at every level of nesting, the
\* context is exactly the importer's again, so that a runtime error raised
\* afterwards in the importer carries the importer's file name and lines.
C25_ContextFollowsImports ==
    [][ImporterContext /\ ErrorContext]_vars /\ []ModuleContext

\* the chunk failed at `w = nope` after its import of m.bpl had finished,
\* and the error names the chunk and its two lines
C25_Witness ==
    /\ kont = <<>>
    /\ res.sig = "RuntimeError"
    /\ res.Msg = "Undefined variable"
    /\ res.File = replChunkFilename(chunks)
    /\ Len(res.Lines) = 2
    /\ ModState(modules, InCwd("m")) = "modLoaded"
    /\ filename = replChunkFilename(chunks)
    /\ lines = res.Lines

(***************************************************************************)
(* Frames: the chunks of the call programs and of the control programs in  *)
(* one session, so that calls end by return, by an error raised inside     *)
(* nested calls and by a break or continue passing through them.           *)
(***************************************************************************)
FramePrograms == CallPrograms \o ControlPrograms

NextFrames ==
    \/ StartRun(FramePrograms)
    \/ RunReturn
    \/ RunResume
    \/ ExecAssign
    \/ ExecExprStmt
    \/ ExecFunctionDecl
    \/ ExecReturn
    \/ ExecBreak
    \/ ExecContinue
    \/ ExecIf
    \/ ExecWhile
    \/ WhileNext
    \/ ExecFor
    \/ ForNext
    \/ ExecForEach
    \/ ForEachNext
    \/ ExecCall
    \/ CallReturn

SpecFrames == Init /\ [][NextFrames]_vars

\* the user calls under way: the Call activations, outermost first
ActiveCalls == SelectSeq(kont, LAMBDA fr : fr.k = "Call")

\* one frame and one name for each call under way, in order
OneFramePerCall ==
    /\ Len(locals) = Len(ActiveCalls)
    /\ callStack = [j \in 1..Len(ActiveCalls) |-> ActiveCalls[j].fn.Name]
\* Run has returned to the REPL: no frame and no name is left
EmptyAtTopLevel == kont = <<>> => locals = <<>> /\ callStack = <<>>
\* a call that starts pushes one frame and one name; a call that ends, by
\* whatever outcome, removes the top frame and the top name
CallPushesOne ==
    (AtCall /\ IsUserCall(CallSite) /\ BodyStarted(funcs[CallSite.Callee])) =>
        /\ Len(locals') = Len(locals) + 1
        /\ SubSeq(locals', 1, Len(locals)) = locals
        /\ callStack' = Append(callStack, CallSite.Callee)
CallEndPopsOne ==
    Returned("Call") =>
        /\ Len(locals') = Len(locals) - 1
        /\ callStack' = SubSeq(callStack, 1, Len(callStack) - 1)

\* C26: every call of a user function pushes exactly one frame and one
\* call-stack name and removes both when the call ends, by return, by a
\* runtime error or by a signal passing through it; the two stacks are
\* equally deep at every statement, and both are empty when Run has
\* returned to a caller without a frame, also after an error deep inside
\* nested calls.
C26_FramesMatchCalls ==
    [][CallPushesOne /\ CallEndPopsOne]_vars
    /\ [](OneFramePerCall /\ EmptyAtTopLevel)

\* an error raised two calls deep has left Run, and both stacks are empty
C26_Witness ==
    /\ kont = <<>>
    /\ res.sig = "RuntimeError"
    /\ Len(res.Stack) = 2
    /\ locals = <<>>
    /\ callStack = <<>>

(***************************************************************************)
(* Registry keys: m.bpl is imported by a chunk, which finds it through the *)
(* chunk's directory, and by lib/x.bpl, which finds it through the project *)
(* root `.`.                                                               *)
(***************************************************************************)
RegistryPrograms ==
    << <<Import(Rel("m"))>>,
       <<Import(Rel("x"))>>,
       <<Import(Rel("m")), Import(Rel("x"))>>,
       <<Assign("x", Num(2))>>,
       <<Import(Rel("bad"))>> >>

NextRegistry ==
    \/ StartRun(RegistryPrograms)
    \/ RunReturn
    \/ ExecAssign
    \/ ExecFunctionDecl
    \/ ExecImport
    \/ ImportReturn

SpecRegistry == Init /\ [][NextRegistry]_vars

\* the file a resolved path names: a relative path is taken from the
\* working directory
FileOf(p) == IF IsAbs(p) THEN p ELSE Join(Cwd, p)

\* two paths that name the same file are the same registry key
OneEntryPerFile ==
    \A p, q \in DOMAIN modules : FileOf(p) = FileOf(q) => p = q
\* a file that was loaded is not executed again, by whatever path an
\* import reaches it
FileRunsOnce ==
    \A j, k \in 1..Len(importLog) :
        (/\ j < k
         /\ importLog[j][2] = "loaded"
         /\ FileOf(importLog[j][1]) = FileOf(importLog[k][1]))
        => importLog[k][2] # "run"

\* C27: the module registry is keyed by a canonical path of the file: two
\* imports that reach the same file through different candidate strings
\* (through the importer's directory from one importer, through the project
\* root `.` from another) address the same entry, and the file is executed
\* only once.
C27_RegistryKeyedByFile == OneEntryPerFile /\ FileRunsOnce

\* the paths whose registry state is Loading (the `loading` list of
\* ModulesSnapshot, as a set)
LoadingPaths == {p \in DOMAIN modules : modules[p] = "modLoading"}
\* the imports under way, outermost first
ImportsUnderWay == SelectSeq(kont, LAMBDA fr : fr.k = "Import")

\* the stack holds exactly the Loading paths, once each, in import order
StackIsLoading ==
    /\ {moduleStack[k] : k \in 1..Len(moduleStack)} = LoadingPaths
    /\ \A j, k \in 1..Len(moduleStack) :
          moduleStack[j] = moduleStack[k] => j = k
    /\ moduleStack = [k \in 1..Len(ImportsUnderWay) |-> ImportsUnderWay[k].resolved]
\* Run has returned: the stack is empty and no path is Loading
NoneLoadingAfterRun == kont = <<>> => moduleStack = <<>> /\ LoadingPaths = {}

\* C28: at every point between statements the stack of loading paths holds
\* exactly the paths whose registry state is Loading, in import order and
\* without duplicates; when an import statement that started with an empty
\* stack finishes, by success or by any error, the stack is empty again and
\* no path is left Loading.
C28_StackHoldsLoadingPaths == StackIsLoading /\ NoneLoadingAfterRun

\* the import of a.bpl failed inside b.bpl, two imports deep, with the
\* cycle error; both imports have finished and nothing is Loading
C28_Witness ==
    /\ kont = <<>>
    /\ res.sig = "RuntimeError"
    /\ res.Msg = "Circular import detected:"
    /\ \E j, k \in 1..Len(importLog) :
          /\ j < k
          /\ importLog[j] = <<PathB, "failed">>
          /\ importLog[k] = <<PathA, "failed">>
    /\ moduleStack = <<>>
    /\ LoadingPaths = {}

(***************************************************************************)
(* Failing opens: handle 3 is opened for reading, read from, and opened    *)
(* again with operands that make the second open fail.                     *)
(***************************************************************************)
\* open #3, "f", "r"
\* rb = lineinput(3)
\* open #3, <path>, <mode>
ChunkReopen(path, mode) ==
    <<Open(3, Str(<<"f">>), Str(<<"r">>)),
      Assign("rb", Call("lineinput", <<Num(3)>>)),
      Open(3, path, mode)>>

OpenPrograms ==
    FilePrograms
    \o <<ChunkReopen(Str(<<"f">>), Str(<<"x">>)),
         ChunkReopen(Str(<<"n", "o", "n", "e">>), Str(<<"r">>)),
         ChunkReopen(Num(5), Str(<<"r">>)),
         ChunkReopen(Str(<<"f">>), Num(5)),
         ChunkReopen(Str(<<"g">>), Str(<<"r">>))>>

NextOpen ==
    \/ StartRun(OpenPrograms)
    \/ RunReturn
    \/ RunResume
    \/ ExecAssign
    \/ ExecIf
    \/ ExecOpen
    \/ ExecClose
    \/ ExecPrintHandle

SpecOpen == Init /\ [][NextOpen]_vars

\* the statement about to run is an open of a positive handle whose
\* operands evaluate without error
AtOpen ==
    /\ StmtIs("OpenStmt")
    /\ Cur.Handle > 0
    /\ evalList(Me, <<Cur.Path, Cur.Mode>>).err.sig = "nil"
OperandKinds ==
    [k \in 1..2 |-> evalList(Me, <<Cur.Path, Cur.Mode>>).vals[k].Kind]
BothStrings == OperandKinds = <<"ValString", "ValString">>

\* a failure after both operands were accepted: the handle is not open, its
\* reader is gone and the file it named is closed
FailedOpenHasClosed ==
    (AtOpen /\ BothStrings /\ res'.sig = "RuntimeError") =>
        /\ Cur.Handle \notin DOMAIN heap'.files
        /\ Cur.Handle \notin DOMAIN heap'.readers
        /\ Cur.Handle \in DOMAIN heap.files =>
              heap'.fds[heap.files[Cur.Handle]].closed
\* a failure on an operand that is not a string: nothing of the handle
\* table has changed
RejectedOperandKeepsTable ==
    (AtOpen /\ ~BothStrings) =>
        /\ res'.sig = "RuntimeError"
        /\ heap'.files = heap.files
        /\ heap'.readers = heap.readers
        /\ heap'.fds = heap.fds

\* C29: when open #N fails after its path and mode were accepted as strings
\* (unknown mode, or the operating system refuses) while handle N was open,
\* the previous file has already been closed and removed with its reader,
\* so handle N is not open afterwards; when it fails because the path or
\* the mode is not a string, the handle table is unchanged.
C29_FailedOpenAndTheHandle ==
    [][FailedOpenHasClosed /\ RejectedOperandKeepsTable]_vars

\* the third line of a reopen chunk failed on the unknown mode; handle 3,
\* which was open and had a reader, is no longer in the table
C29_Witness ==
    /\ kont = <<>>
    /\ res.sig = "RuntimeError"
    /\ res.Msg = "open mode must be r, w, or a"
    /\ Len(res.Lines) = 3
    /\ "rb" \in DOMAIN globals
    /\ 3 \notin DOMAIN heap.files
    /\ 3 \notin DOMAIN heap.readers
    /\ heap.fds[Len(heap.fds)].closed

(***************************************************************************)
(* Values that hold themselves: chunks that build an array or a map, store *)
(* it in itself by index assignment or by push, and compare or render it.  *)
(***************************************************************************)
\* ca = [1]          cp = []             cm = {"a": 1}       cn = [[1], 2]
\* ca[0] = ca        push(cp, cp)        cm["a"] = cm
ChunkSelfIndex ==
    <<Assign("ca", ArrayLit(<<Num(1)>>)), IndexAssign("ca", Num(0), Ident("ca"))>>
ChunkSelfPush ==
    <<Assign("cp", ArrayLit(<<>>)),
      ExprStmt(Call("push", <<Ident("cp"), Ident("cp")>>))>>
ChunkSelfMap ==
    <<Assign("cm", MapLit(<<Entry(KeyA, Num(1))>>)),
      IndexAssign("cm", Str(KeyA), Ident("cm"))>>
ChunkNested ==
    <<Assign("cn", ArrayLit(<<ArrayLit(<<Num(1)>>), Num(2)>>))>>
SelfNames == <<"ca", "cp", "cm", "cn">>
\* ce = <x> == <y>
ChunkEqual(x, y) == <<Assign("ce", Binary(Ident(x), "==", Ident(y)))>>
\* print <x>
ChunkRender(x) == <<PrintStmt(Ident(x))>>
\* cs = str(<x>)
ChunkStr(x) == <<Assign("cs", Call("str", <<Ident(x)>>))>>
\* cc = "a" + <x>
ChunkConcat(x) == <<Assign("cc", Binary(Str(KeyA), "+", Ident(x)))>>

CyclePrograms ==
    <<ChunkSelfIndex, ChunkSelfPush, ChunkSelfMap, ChunkNested,
      ChunkEqual("ca", "cp"), ChunkEqual("ca", "cn")>>
    \o [k \in 1..Len(SelfNames) |-> ChunkEqual(SelfNames[k], SelfNames[k])]
    \o [k \in 1..Len(SelfNames) |-> ChunkRender(SelfNames[k])]
    \o [k \in 1..Len(SelfNames) |-> ChunkStr(SelfNames[k])]
    \o [k \in 1..Len(SelfNames) |-> ChunkConcat(SelfNames[k])]

NextCycles ==
    \/ StartRun(CyclePrograms)
    \/ RunReturn
    \/ ExecAssign
    \/ ExecIndexAssign
    \/ ExecExprStmt
    \/ ExecPrint

SpecCycles == Init /\ [][NextCycles]_vars

\* C30: evaluating `==` on, and rendering (print, str, string
\* concatenation), any value a program can construct terminates, also for
\* an array or map made to hold itself through push or index assignment:
\* no statement ends in the runtime's stack overflow.
C30_EqualityAndRenderingTerminate ==
    [][AtStmt => res'.sig # "fatal"]_vars

====
